---- MODULE Spec2Model ----
(***************************************************************************)
(* Model of the Advent-of-Code 2022 solvers and of the Grid / Point /      *)
(* Bounds / Line geometry library they share (crate::util::geometry).      *)
(***************************************************************************)
EXTENDS Integers, Sequences, FiniteSets, Bags, TLC

(***************************************************************************)
(* Bounds of the model                                                     *)
(***************************************************************************)
\* coordinates handed to Grid.set range over -1..MaxCoord
MaxCoord == 1
\* number of Grid.set calls in one behaviour of the grid specification
MaxSets == 3
\* rows and columns of the character blocks given to the day-23 parser
MaxRows == 3
MaxCols == 3
\* number of '#' characters in such a block
MaxElves == 2
\* number of trees of a day-8 forest
MaxTrees == 9
\* lowest flooring row of a day-14 cave
MaxFloor == 3
\* number of knots of a day-9 rope
MaxKnots == 3
\* number of unit moves of the head of the rope in one behaviour
MaxMoves == 5
\* number of stacks of a day-5 field, and of crates on it
MaxStacks == 3
MaxCrates == 3
\* number of characters of a day-6 stream
MaxStream == 5
\* number of operations of a day-10 program
MaxProgram == 4
\* number of monkeys of a day-11 troop, and of items they hold
MaxMonkeys == 3
MaxItems == 3
\* day 12: gates of the example that may be switched, length of the short texts
MaxGates == 5
MaxTiny == 2
\* day 13: number of nodes (lists and integers) of a packet
MaxSize == 3
\* number of sensors of a day-15 list
MaxSensors == 3
\* day 17: length of the tape, number of blocks dropped
MaxTape == 6
MaxDrops == 16
\* day 25: the largest small number encoded, the numbers on each side of 5^26,
\* and the characters of a text decoded
MaxSnafu == 40
MaxWide == 3
MaxDigits == 3
\* day 19: the largest cost of a blueprint and the largest time_allotted
MaxCost == 2
MaxTime == 8
\* number of play_round calls in one behaviour
MaxRounds == 1
\* length of the day-8 puzzle text
MaxInput == 5
\* points of the rock line given to create_cave
MaxPath == 3

Coords == (-1)..MaxCoord
Values == {1, 2}

(***************************************************************************)
(* Option<V>                                                               *)
(***************************************************************************)
None == <<>>
Some(v) == <<v>>

(***************************************************************************)
(* Point                                                                   *)
(***************************************************************************)
Point(x, y) == [x |-> x, y |-> y]

\* Point + (dx, dy)
Point_add(p, o) == Point(p.x + o[1], p.y + o[2])

Points == {Point(x, y) : x \in Coords, y \in Coords}

\* Directions -> list of offsets; Top is y - 1, Right is x + 1
Directions_offsets(d) ==
    CASE d = "Top" -> << <<0, -1>> >>
      [] d = "Right" -> << <<1, 0>> >>
      [] d = "Bottom" -> << <<0, 1>> >>
      [] d = "Left" -> << <<-1, 0>> >>
      [] d = "TopAll" -> << <<-1, -1>>, <<0, -1>>, <<1, -1>> >>
      [] d = "RightAll" -> << <<1, -1>>, <<1, 0>>, <<1, 1>> >>
      [] d = "BottomAll" -> << <<-1, 1>>, <<0, 1>>, <<1, 1>> >>
      [] d = "LeftAll" -> << <<-1, -1>>, <<-1, 0>>, <<-1, 1>> >>
      [] d = "Diagonal" -> << <<-1, -1>>, <<1, -1>>, <<1, 1>>, <<-1, 1>> >>
      [] d = "NonDiagonal" -> << <<0, -1>>, <<1, 0>>, <<0, 1>>, <<-1, 0>> >>
      [] d = "All" -> << <<0, -1>>, <<1, -1>>, <<1, 0>>, <<1, 1>>,
                         <<0, 1>>, <<-1, 1>>, <<-1, 0>>, <<-1, -1>> >>

Directions == {"Top", "Right", "Bottom", "Left", "TopAll", "RightAll",
               "BottomAll", "LeftAll", "Diagonal", "NonDiagonal", "All"}
Orthogonal == {"Top", "Right", "Bottom", "Left"}

\* Point::get_points_around(directions): the neighbours, no bounds filtering
Point_get_points_around(p, d) ==
    [i \in 1..Len(Directions_offsets(d)) |-> Point_add(p, Directions_offsets(d)[i])]

(***************************************************************************)
(* Bounds: top / left / width / height                                     *)
(***************************************************************************)
Bounds_from_tlbr(t, l, b, r) ==
    [top |-> t, left |-> l, width |-> r - l + 1, height |-> b - t + 1]

Bounds_from_size(w, h) == [top |-> 0, left |-> 0, width |-> w, height |-> h]

\* Bounds of Grid::default() / Grid::empty(): zero-sized
Bounds_default == Bounds_from_size(0, 0)

Bounds_bottom(b) == b.top + b.height - 1
Bounds_right(b) == b.left + b.width - 1

Bounds_contains(b, p) ==
    /\ b.left <= p.x /\ p.x <= Bounds_right(b)
    /\ b.top <= p.y /\ p.y <= Bounds_bottom(b)

SetMinIdx(S) == CHOOSE m \in S : \A n \in S : m <= n

Min(a, b) == IF a <= b THEN a ELSE b
Max(a, b) == IF a >= b THEN a ELSE b

\* growth that never moves the top / left edge
Bounds_grow_right_down(b, p) ==
    IF b.width = 0 \/ b.height = 0
    THEN Bounds_from_tlbr(p.y, p.x, p.y, p.x)
    ELSE Bounds_from_tlbr(b.top, b.left,
                          Max(Bounds_bottom(b), p.y), Max(Bounds_right(b), p.x))

\* growth that treats the zero-sized Bounds like any other
Bounds_grow_from_origin(b, p) ==
    Bounds_from_tlbr(Min(b.top, p.y), Min(b.left, p.x),
                     Max(Bounds_bottom(b), p.y), Max(Bounds_right(b), p.x))

\* growth on insertion: a zero-sized Bounds becomes the point itself,
\* otherwise every edge is the min / max of the old edge and the point
Bounds_grow(b, p) ==
    IF b.width = 0 \/ b.height = 0
    THEN Bounds_from_tlbr(p.y, p.x, p.y, p.x)
    ELSE Bounds_from_tlbr(Min(b.top, p.y), Min(b.left, p.x),
                          Max(Bounds_bottom(b), p.y), Max(Bounds_right(b), p.x))

\* Bounds::x(), Bounds::y(): ascending inclusive ranges, as sequences
Bounds_x(b) == [i \in 1..b.width |-> b.left + i - 1]
Bounds_y(b) == [i \in 1..b.height |-> b.top + i - 1]

\* Bounds::points(): row-major, as a sequence of rows
Bounds_points(b) ==
    [j \in 1..b.height |-> [i \in 1..b.width |-> Point(b.left + i - 1, b.top + j - 1)]]

(***************************************************************************)
(* Grid<V>: cells (a map Point -> V) and the derived bounds                *)
(***************************************************************************)
Grid_default == [cells |-> [q \in {} |-> 0], bounds |-> Bounds_default]

Grid_has(g, p) == p \in DOMAIN g.cells

Grid_get(g, p) == IF p \in DOMAIN g.cells THEN Some(g.cells[p]) ELSE None

\* a set whose key comparison looks at x only
Grid_set_x_key(g, p, v) ==
    [cells |-> [q \in {r \in DOMAIN g.cells : r.x # p.x} \cup {p} |->
                   IF q = p THEN v ELSE g.cells[q]],
     bounds |-> Bounds_grow(g.bounds, p)]

\* a set that keeps the first value stored at a point
Grid_set_keep_first(g, p, v) ==
    [cells |-> [q \in (DOMAIN g.cells) \cup {p} |->
                   IF q \in DOMAIN g.cells THEN g.cells[q] ELSE v],
     bounds |-> Bounds_grow(g.bounds, p)]

Grid_set(g, p, v) ==
    [cells |-> [q \in (DOMAIN g.cells) \cup {p} |-> IF q = p THEN v ELSE g.cells[q]],
     bounds |-> Bounds_grow(g.bounds, p)]

\* Grid::new(cells): the bounds are grown over every key
RECURSIVE Bounds_of(_)
Bounds_of(ps) ==
    IF ps = {} THEN Bounds_default
    ELSE LET p == CHOOSE q \in ps : TRUE IN Bounds_grow(Bounds_of(ps \ {p}), p)

Grid_new(cells) == [cells |-> cells, bounds |-> Bounds_of(DOMAIN cells)]

\* all enumerations of a finite set without repetition
Orderings(S) ==
    {s \in [1..Cardinality(S) -> S] : \A i, j \in 1..Cardinality(S) : i # j => s[i] # s[j]}

\* Grid::entries(): the stored (point, value) pairs; the order is the
\* iteration order of the backing hash map, which is unspecified, so the
\* operator yields every order the call can return
Grid_entries(g) ==
    {[i \in 1..Len(o) |-> <<o[i], g.cells[o[i]]>>] : o \in Orderings(DOMAIN g.cells)}

\* Grid::values(): projection of entries()
Grid_values(g) ==
    {[i \in 1..Len(e) |-> e[i][2]] : e \in Grid_entries(g)}

\* keep the elements of a sequence of points that are keys of the grid
RECURSIVE Grid_present(_, _)
Grid_present(g, ps) ==
    IF ps = <<>> THEN <<>>
    ELSE (IF Grid_has(g, Head(ps)) THEN <<Head(ps)>> ELSE <<>>) \o Grid_present(g, Tail(ps))

\* neighbours that include the point itself
Grid_get_adjacent_points_with_self(g, p, d) ==
    Grid_present(g, <<p>> \o Point_get_points_around(p, d))

\* Grid::get_adjacent_points(point, directions)
Grid_get_adjacent_points(g, p, d) == Grid_present(g, Point_get_points_around(p, d))

\* Grid::get_adjacent(point, directions)
Grid_get_adjacent(g, p, d) ==
    LET ps == Grid_get_adjacent_points(g, p, d)
    IN [i \in 1..Len(ps) |-> g.cells[ps[i]]]

\* the walk of get_in_direction: from q onward by offset o while inside the
\* bounds, keeping the points that hold a value
RECURSIVE Grid_walk(_, _, _)
Grid_walk(g, q, o) ==
    IF ~Bounds_contains(g.bounds, q) THEN <<>>
    ELSE (IF Grid_has(g, q) THEN <<q>> ELSE <<>>) \o Grid_walk(g, Point_add(q, o), o)

\* a walk that starts on the point itself
Grid_get_in_direction_points_from_self(g, p, d) ==
    Grid_walk(g, p, Directions_offsets(d)[1])

Grid_get_in_direction_points(g, p, d) ==
    Grid_walk(g, Point_add(p, Directions_offsets(d)[1]), Directions_offsets(d)[1])

\* Grid::get_in_direction(point, direction), direction orthogonal
Grid_get_in_direction(g, p, d) ==
    LET ps == Grid_get_in_direction_points(g, p, d)
    IN [i \in 1..Len(ps) |-> g.cells[ps[i]]]

(***************************************************************************)
(* Text: a string is a sequence of one-character strings                   *)
(***************************************************************************)
NL == "\n"

\* index of the first line feed of s, or Len(s) + 1
FirstNL(s) ==
    IF \E i \in 1..Len(s) : s[i] = NL
    THEN CHOOSE i \in 1..Len(s) : s[i] = NL /\ \A j \in 1..(i - 1) : s[j] # NL
    ELSE Len(s) + 1

\* str::lines(): split at line feeds, the final line feed is optional
RECURSIVE str_lines(_)
str_lines(s) ==
    IF s = <<>> THEN <<>>
    ELSE <<SubSeq(s, 1, FirstNL(s) - 1)>> \o str_lines(SubSeq(s, FirstNL(s) + 1, Len(s)))

\* the characters of the lines scanned row-major, each with its column x and
\* row y counted from 0: the loops `for y in 0..lines.len()`,
\* `for x in 0..chars.len()` of the parsers
RECURSIVE CharCells(_, _)
CharCells(lines, y) ==
    IF lines = <<>> THEN <<>>
    ELSE [x \in 1..Len(Head(lines)) |-> [x |-> x - 1, y |-> y, c |-> Head(lines)[x]]]
         \o CharCells(Tail(lines), y + 1)

\* rows joined with line feeds; every row is followed by one when `final`
RECURSIVE JoinLines(_, _)
JoinLines(rows, final) ==
    IF rows = <<>> THEN <<>>
    ELSE Head(rows) \o (IF Len(rows) > 1 \/ final THEN <<NL>> ELSE <<>>)
         \o JoinLines(Tail(rows), final)

\* impl Display for Grid<V>: the rows of Bounds::points(), every cell shown
\* through the Display fmt of its value or of V::default() when absent, rows
\* separated by line feeds
Grid_fmt(g, fmt, default) ==
    LET pts == Bounds_points(g.bounds)
    IN JoinLines([j \in 1..Len(pts) |->
                    [i \in 1..Len(pts[j]) |->
                        fmt[IF Grid_has(g, pts[j][i]) THEN g.cells[pts[j][i]] ELSE default]]],
                 FALSE)

(***************************************************************************)
(* Day 23: GameOfElves                                                     *)
(***************************************************************************)
\* impl Display for Tile
Tile23_fmt == [t \in {"Nothing", "Elf"} |-> IF t = "Elf" THEN "#" ELSE "."]

GameOfElves_new ==
    [tiles |-> Grid_default, directions |-> <<"North", "South", "West", "East">>]

\* a parse that stores every character at (row, column)
RECURSIVE GameOfElves_parse_cells_transposed(_, _)
GameOfElves_parse_cells_transposed(game, cs) ==
    IF cs = <<>> THEN [ok |-> TRUE, game |-> game]
    ELSE LET h == Head(cs) IN
         CASE h.c = "." ->
                GameOfElves_parse_cells_transposed(
                    [game EXCEPT !.tiles = Grid_set(@, Point(h.y, h.x), "Nothing")], Tail(cs))
           [] h.c = "#" ->
                GameOfElves_parse_cells_transposed(
                    [game EXCEPT !.tiles = Grid_set(@, Point(h.y, h.x), "Elf")], Tail(cs))
           [] OTHER -> [ok |-> FALSE, game |-> GameOfElves_new]

\* the loop body of from_str over the remaining cells; Err on the first
\* character that is neither '.' nor '#'
RECURSIVE GameOfElves_parse_cells(_, _)
GameOfElves_parse_cells(game, cs) ==
    IF cs = <<>> THEN [ok |-> TRUE, game |-> game]
    ELSE LET h == Head(cs) IN
         CASE h.c = "." ->
                GameOfElves_parse_cells(
                    [game EXCEPT !.tiles = Grid_set(@, Point(h.x, h.y), "Nothing")], Tail(cs))
           [] h.c = "#" ->
                GameOfElves_parse_cells(
                    [game EXCEPT !.tiles = Grid_set(@, Point(h.x, h.y), "Elf")], Tail(cs))
           [] OTHER -> [ok |-> FALSE, game |-> GameOfElves_new]

\* impl FromStr for GameOfElves
GameOfElves_from_str(s) ==
    GameOfElves_parse_cells(GameOfElves_new, CharCells(str_lines(s), 0))

\* Direction::apply
Direction_apply(d, p) ==
    Point_add(p, CASE d = "North" -> <<0, -1>>
                   [] d = "East" -> <<1, 0>>
                   [] d = "South" -> <<0, 1>>
                   [] d = "West" -> <<-1, 0>>)

\* can_move looking at the opposite side
Direction_can_move_opposite(d, p, tiles) ==
    LET directions == CASE d = "North" -> "BottomAll"
                        [] d = "East" -> "LeftAll"
                        [] d = "South" -> "TopAll"
                        [] d = "West" -> "RightAll"
        adj == Grid_get_adjacent(tiles, p, directions)
    IN \A i \in 1..Len(adj) : adj[i] # "Elf"

\* Direction::can_move
Direction_can_move(d, p, tiles) ==
    LET directions == CASE d = "North" -> "TopAll"
                        [] d = "East" -> "RightAll"
                        [] d = "South" -> "BottomAll"
                        [] d = "West" -> "LeftAll"
        adj == Grid_get_adjacent(tiles, p, directions)
    IN \A i \in 1..Len(adj) : adj[i] # "Elf"

\* the moves of one round: <<source, destination>> for every elf with an elf
\* next to it, towards the first direction of the queue it can move in
GameOfElves_proposals(game) ==
    LET cells == game.tiles.cells
        elves_to_move ==
            {p \in DOMAIN cells :
                /\ cells[p] = "Elf"
                /\ LET adj == Grid_get_adjacent(game.tiles, p, "All")
                   IN \E i \in 1..Len(adj) : adj[i] = "Elf"}
        can(p) == {i \in 1..Len(game.directions) :
                      Direction_can_move(game.directions[i], p, game.tiles)}
    IN {<<p, Direction_apply(game.directions[SetMinIdx(can(p))], p)>> :
            p \in {q \in elves_to_move : can(q) # {}}}

\* the final loop of play_round: every destination with a single source
RECURSIVE GameOfElves_apply_moves(_, _)
GameOfElves_apply_moves(tiles, ms) ==
    IF ms = {} THEN tiles
    ELSE LET m == CHOOSE x \in ms : TRUE
         IN GameOfElves_apply_moves(
                Grid_set(Grid_set(tiles, m[1], "Nothing"), m[2], "Elf"), ms \ {m})

GameOfElves_unique_moves(game) ==
    LET props == GameOfElves_proposals(game)
    IN {m \in props : \A n \in props : n[2] = m[2] => n = m}

\* GameOfElves::play_round: the game after the round
GameOfElves_play_round(game) ==
    [tiles |-> GameOfElves_apply_moves(game.tiles, GameOfElves_unique_moves(game)),
     directions |-> Tail(game.directions) \o <<Head(game.directions)>>]

\* GameOfElves::play_round: its return value
GameOfElves_play_round_moves(game) == Cardinality(GameOfElves_unique_moves(game))

(***************************************************************************)
(* util::collection                                                        *)
(***************************************************************************)
SeqContains(s, v) == \E i \in 1..Len(s) : s[i] = v

\* CollectionExtension::deduplicate: first occurrences, in order
RECURSIVE Vec_deduplicate_from(_, _)
Vec_deduplicate_from(result, s) ==
    IF s = <<>> THEN result
    ELSE Vec_deduplicate_from(
             IF SeqContains(result, Head(s)) THEN result ELSE Append(result, Head(s)),
             Tail(s))

Vec_deduplicate(s) == Vec_deduplicate_from(<<>>, s)

(***************************************************************************)
(* Day 8: Forest                                                           *)
(***************************************************************************)
Digits == <<"0", "1", "2", "3", "4", "5", "6", "7", "8", "9">>
IsDigit(c) == \E i \in 1..10 : Digits[i] = c
DigitValue(c) == (CHOOSE i \in 1..10 : Digits[i] = c) - 1

\* impl FromStr for Grid<i32>: one entry per character, Err on a character
\* that is not a digit; the row lengths are left to the caller
RECURSIVE Grid_parse_cells(_, _)
Grid_parse_cells(g, cs) ==
    IF cs = <<>> THEN [ok |-> TRUE, trees |-> g]
    ELSE IF IsDigit(Head(cs).c)
         THEN Grid_parse_cells(
                  Grid_set(g, Point(Head(cs).x, Head(cs).y), DigitValue(Head(cs).c)), Tail(cs))
         ELSE [ok |-> FALSE, trees |-> Grid_default]

Grid_from_str(s) == Grid_parse_cells(Grid_default, CharCells(str_lines(s), 0))

\* parse_input without the check of the line lengths
parse_input_unchecked(input) == Grid_from_str(input)

\* parse_input
parse_input(input) ==
    LET lines == str_lines(input)
        lens == Vec_deduplicate([i \in 1..Len(lines) |-> Len(lines[i])])
    IN IF Len(lens) # 1
       THEN [ok |-> FALSE, trees |-> Grid_default]
       ELSE Grid_from_str(input)

\* the trees pushed by the loop of get_visible_trees_from over the trees of
\* one direction: each tree is pushed, the loop breaks after the first one
\* that is at least as high as height
RECURSIVE Forest_visible_prefix(_, _)
Forest_visible_prefix(ts, height) ==
    IF ts = <<>> THEN <<>>
    ELSE IF Head(ts) >= height THEN <<Head(ts)>>
         ELSE <<Head(ts)>> \o Forest_visible_prefix(Tail(ts), height)

\* a loop that only breaks on a strictly higher tree
RECURSIVE Forest_visible_prefix_strict(_, _)
Forest_visible_prefix_strict(ts, height) ==
    IF ts = <<>> THEN <<>>
    ELSE IF Head(ts) > height THEN <<Head(ts)>>
         ELSE <<Head(ts)>> \o Forest_visible_prefix_strict(Tail(ts), height)

\* get_visible_trees_from that looks through trees of its own height
Forest_get_visible_trees_from_strict(trees, tree, direction) ==
    IF Grid_get(trees, tree) = None THEN <<>>
    ELSE Forest_visible_prefix_strict(Grid_get_in_direction(trees, tree, direction),
                                      Grid_get(trees, tree)[1])

\* Forest::get_visible_trees_from
Forest_get_visible_trees_from(trees, tree, direction) ==
    IF Grid_get(trees, tree) = None THEN <<>>
    ELSE Forest_visible_prefix(Grid_get_in_direction(trees, tree, direction),
                               Grid_get(trees, tree)[1])

\* Forest::get_scenic_score
Forest_get_scenic_score(trees, tree) ==
    LET top == Len(Forest_get_visible_trees_from(trees, tree, "Top"))
        right == Len(Forest_get_visible_trees_from(trees, tree, "Right"))
        bottom == Len(Forest_get_visible_trees_from(trees, tree, "Bottom"))
        left == Len(Forest_get_visible_trees_from(trees, tree, "Left"))
    IN top * right * bottom * left

\* the scores get_best_scenic_score maps the points of the forest to
Forest_scenic_scores(trees) ==
    [p \in DOMAIN trees.cells |-> Forest_get_scenic_score(trees, p)]

(***************************************************************************)
(* Day 14: Cave                                                            *)
(***************************************************************************)
Sign(n) == IF n > 0 THEN 1 ELSE IF n < 0 THEN -1 ELSE 0
Abs(n) == IF n < 0 THEN -n ELSE n

\* a Line that leaves out its end point
Line_get_points_open(start, end) ==
    CASE start.x = end.x ->
            [i \in 1..Abs(end.y - start.y) |->
                Point(start.x, start.y + (i - 1) * Sign(end.y - start.y))]
      [] start.y = end.y ->
            [i \in 1..Abs(end.x - start.x) |->
                Point(start.x + (i - 1) * Sign(end.x - start.x), start.y)]
      [] OTHER -> <<>>

\* Line::get_points for a horizontal or vertical Line: from start to end,
\* both included (no caller draws any other Line)
Line_get_points(start, end) ==
    CASE start.x = end.x ->
            [i \in 1..(Abs(end.y - start.y) + 1) |->
                Point(start.x, start.y + (i - 1) * Sign(end.y - start.y))]
      [] start.y = end.y ->
            [i \in 1..(Abs(end.x - start.x) + 1) |->
                Point(start.x + (i - 1) * Sign(end.x - start.x), start.y)]
      [] OTHER -> <<>>

\* cave.set(p, tile) for every p of a sequence
RECURSIVE Cave_set_all(_, _, _)
Cave_set_all(cave, ps, tile) ==
    IF ps = <<>> THEN cave
    ELSE Cave_set_all(Grid_set(cave, Head(ps), tile), Tail(ps), tile)

\* the loop `for i in 0..points.len()-1` of create_cave, from index i on
RECURSIVE Cave_draw(_, _, _, _)
Cave_draw(cave, points, i, n) ==
    IF i > n THEN cave
    ELSE Cave_draw(Cave_set_all(cave, Line_get_points(points[i], points[i + 1]), "Rock"),
                   points, i + 1, n)

\* rock lines drawn without their last segment
RECURSIVE Cave_draw_lines_short(_, _)
Cave_draw_lines_short(cave, lines) ==
    IF lines = <<>> THEN cave
    ELSE Cave_draw_lines_short(Cave_draw(cave, Head(lines), 1, Len(Head(lines)) - 2),
                               Tail(lines))

\* the loop over the rock lines of the input
RECURSIVE Cave_draw_lines(_, _)
Cave_draw_lines(cave, lines) ==
    IF lines = <<>> THEN cave
    ELSE Cave_draw_lines(Cave_draw(cave, Head(lines), 1, Len(Head(lines)) - 1), Tail(lines))

\* create_cave, given the points parse_rock_line read from every input line
create_cave(lines) ==
    Grid_set(Cave_draw_lines(Grid_default, lines), Point(500, 0), "Extruder")

\* Cave::determine_flooring: two below the lowest Rock
Cave_determine_flooring(cave) ==
    LET ys == {q.y : q \in {r \in DOMAIN cave.cells : cave.cells[r] = "Rock"}}
    IN IF ys = {} THEN None
       ELSE Some((CHOOSE m \in ys : \A n \in ys : m >= n) + 2)

\* get_tile that takes the cells outside the Bounds for Rock
Cave_get_tile_walled(cave, point, flooring) ==
    IF flooring = None
    THEN (IF Bounds_contains(cave.bounds, point)
          THEN Some(IF Grid_get(cave, point) = None THEN "Air" ELSE Grid_get(cave, point)[1])
          ELSE Some("Rock"))
    ELSE (IF flooring[1] > point.y
          THEN Some(IF Grid_get(cave, point) = None THEN "Air" ELSE Grid_get(cave, point)[1])
          ELSE Some("Rock"))

\* Cave::get_tile
Cave_get_tile(cave, point, flooring) ==
    IF flooring = None
    THEN (IF Bounds_contains(cave.bounds, point)
          THEN Some(IF Grid_get(cave, point) = None THEN "Air" ELSE Grid_get(cave, point)[1])
          ELSE None)
    ELSE (IF flooring[1] > point.y
          THEN Some(IF Grid_get(cave, point) = None THEN "Air" ELSE Grid_get(cave, point)[1])
          ELSE Some("Rock"))

\* the left / right spots are free for: None | Some(Air) | Some(Extruder)
Cave_is_free(cave, point, flooring) ==
    Cave_get_tile(cave, point, flooring) \in {None, Some("Air"), Some("Extruder")}

\* a unit that refuses to rest on the extruder
Cave_rest_not_on_extruder(cave, current_point, extruder, trail) ==
    IF current_point = extruder
    THEN [ok |-> FALSE, cave |-> cave, trail |-> trail]
    ELSE [ok |-> TRUE, cave |-> Grid_set(cave, current_point, "Sand"), trail |-> trail]

\* both spots taken: self.set(current_point, Tile::Sand); return true
Cave_rest(cave, current_point, extruder, trail) ==
    [ok |-> TRUE, cave |-> Grid_set(cave, current_point, "Sand"), trail |-> trail]

\* the 'main loop of drop_sand; trail lists the values current_point took
RECURSIVE Cave_fall(_, _, _, _, _)
Cave_fall(cave, current_point, extruder, flooring, trail) ==
    LET next_point == Point_add(current_point, <<0, 1>>)
        left == Point_add(next_point, <<-1, 0>>)
        right == Point_add(next_point, <<1, 0>>)
        tile == Cave_get_tile(cave, next_point, flooring)
    IN IF tile = None THEN [ok |-> FALSE, cave |-> cave, trail |-> trail]
       ELSE IF tile[1] \in {"Air", "Extruder"}
       THEN Cave_fall(cave, next_point, extruder, flooring, Append(trail, next_point))
       ELSE IF Cave_is_free(cave, left, flooring)
       THEN Cave_fall(cave, left, extruder, flooring, Append(trail, left))
       ELSE IF Cave_is_free(cave, right, flooring)
       THEN Cave_fall(cave, right, extruder, flooring, Append(trail, right))
       ELSE Cave_rest(cave, current_point, extruder, trail)

\* Cave::drop_sand: the returned bool, the cave afterwards and the trail
Cave_drop_sand(cave, flooring) ==
    LET extruders == {q \in DOMAIN cave.cells : cave.cells[q] = "Extruder"}
    IN IF extruders = {} THEN [ok |-> FALSE, cave |-> cave, trail |-> <<>>]
       ELSE LET extruder == CHOOSE q \in extruders : TRUE
            IN Cave_fall(cave, extruder, extruder, flooring, <<extruder>>)

\* Cave::get_max_held_sand: the loop, on the clone sim with sands counted
RECURSIVE Cave_held_sand_loop(_, _, _)
Cave_held_sand_loop(sim, flooring, sands) ==
    IF Cave_drop_sand(sim, flooring).ok
    THEN Cave_held_sand_loop(Cave_drop_sand(sim, flooring).cave, flooring, sands + 1)
    ELSE sands

Cave_get_max_held_sand(cave, flooring) == Cave_held_sand_loop(cave, flooring, 0)

(***************************************************************************)
(* Day 9: Simulation of a rope                                             *)
(***************************************************************************)
Directions09 == {"Up", "Right", "Down", "Left"}

\* Simulation::new(knot_count)
Simulation_new(knot_count) ==
    [knots |-> [i \in 1..knot_count |-> Point(0, 0)],
     tail_history |-> Grid_new([q \in {Point(0, 0)} |-> TRUE])]

\* the head: one step in the direction of the Step
Simulation_move_head(knot, direction) ==
    CASE direction = "Up" -> Point(knot.x, knot.y - 1)
      [] direction = "Right" -> Point(knot.x + 1, knot.y)
      [] direction = "Down" -> Point(knot.x, knot.y + 1)
      [] direction = "Left" -> Point(knot.x - 1, knot.y)

\* points.iter().find(|p| targets.contains(p))
RECURSIVE Vec_find_in(_, _)
Vec_find_in(points, targets) ==
    IF points = <<>> THEN None
    ELSE IF SeqContains(targets, Head(points)) THEN Some(Head(points))
         ELSE Vec_find_in(Tail(points), targets)

\* a follower that only looks at the non-diagonal targets
Simulation_follow_no_diagonal(knot, previous) ==
    LET points == Point_get_points_around(knot, "All")
        possible_targets == Point_get_points_around(previous, "NonDiagonal")
    IN IF previous = knot \/ SeqContains(points, previous)
       THEN [panic |-> FALSE, knot |-> knot]
       ELSE IF Vec_find_in(points, possible_targets) # None
       THEN [panic |-> FALSE, knot |-> Vec_find_in(points, possible_targets)[1]]
       ELSE [panic |-> TRUE, knot |-> knot]

\* the else branch of the knot loop: the new position of a knot behind
\* previous, or the panic
Simulation_follow(knot, previous) ==
    LET points == Point_get_points_around(knot, "All")
        possible_targets == Point_get_points_around(previous, "NonDiagonal")
        diagonal_targets == Point_get_points_around(previous, "Diagonal")
    IN IF previous = knot \/ SeqContains(points, previous)
       THEN [panic |-> FALSE, knot |-> knot]
       ELSE IF Vec_find_in(points, possible_targets) # None
       THEN [panic |-> FALSE, knot |-> Vec_find_in(points, possible_targets)[1]]
       ELSE IF Vec_find_in(points, diagonal_targets) # None
       THEN [panic |-> FALSE, knot |-> Vec_find_in(points, diagonal_targets)[1]]
       ELSE [panic |-> TRUE, knot |-> knot]

\* the loop over the knots from index i on, knot i - 1 already moved
RECURSIVE Simulation_move_knots(_, _, _)
Simulation_move_knots(knots, direction, i) ==
    IF i > Len(knots) THEN [panic |-> FALSE, knots |-> knots]
    ELSE IF i = 1
    THEN Simulation_move_knots(
             [knots EXCEPT ![1] = Simulation_move_head(knots[1], direction)], direction, 2)
    ELSE LET r == Simulation_follow(knots[i], knots[i - 1])
         IN IF r.panic THEN [panic |-> TRUE, knots |-> knots]
            ELSE Simulation_move_knots([knots EXCEPT ![i] = r.knot], direction, i + 1)

\* one round of the outer loop of apply_step: every knot, then the tail
\* position is kept in tail_history
Simulation_unit_move(sim, direction) ==
    LET r == Simulation_move_knots(sim.knots, direction, 1)
    IN IF r.panic THEN [panic |-> TRUE, sim |-> sim]
       ELSE [panic |-> FALSE,
             sim |-> [knots |-> r.knots,
                      tail_history |->
                          Grid_set(sim.tail_history, r.knots[Len(r.knots)], TRUE)]]

\* Simulation::apply_step(step); units lists the knots before the call and
\* after every round of the outer loop
RECURSIVE Simulation_apply_step(_, _, _, _)
Simulation_apply_step(sim, direction, amount, units) ==
    IF amount = 0 THEN [panic |-> FALSE, sim |-> sim, units |-> units]
    ELSE LET r == Simulation_unit_move(sim, direction)
         IN IF r.panic THEN [panic |-> TRUE, sim |-> sim, units |-> units]
            ELSE Simulation_apply_step(r.sim, direction, amount - 1,
                                       Append(units, r.sim.knots))

\* Simulation::get_tail_position_count
Simulation_get_tail_position_count(sim) ==
    Cardinality({q \in DOMAIN sim.tail_history.cells : sim.tail_history.cells[q]})

(***************************************************************************)
(* Day 5: Field of stacks of crates; a stack lists its crates bottom first *)
(***************************************************************************)
\* Vec::pop / Vec::push on the stacks of a Field; stack n of a Move is
\* stacks[n - 1] in the source and stacks[n] here
Vec_front(s) == SubSeq(s, 1, Len(s) - 1)

\* the loop of apply_move: count times, pop from `from` and push on `to`
RECURSIVE Field_apply_move(_, _, _, _)
Field_apply_move(stacks, count, from, to) ==
    IF count = 0 THEN stacks
    ELSE IF stacks[from] = <<>> THEN Field_apply_move(stacks, count - 1, from, to)
    ELSE LET val == stacks[from][Len(stacks[from])]
             popped == [stacks EXCEPT ![from] = Vec_front(stacks[from])]
         IN Field_apply_move([popped EXCEPT ![to] = Append(popped[to], val)],
                             count - 1, from, to)

\* the first loop of apply_move_with_order: the stacks after the pops and
\* the popped crates, in to_move
RECURSIVE Field_pop_to_move(_, _, _, _)
Field_pop_to_move(stacks, count, from, to_move) ==
    IF count = 0 THEN [stacks |-> stacks, to_move |-> to_move]
    ELSE IF stacks[from] = <<>> THEN Field_pop_to_move(stacks, count - 1, from, to_move)
    ELSE Field_pop_to_move([stacks EXCEPT ![from] = Vec_front(stacks[from])], count - 1, from,
                           Append(to_move, stacks[from][Len(stacks[from])]))

\* the second loop of apply_move_with_order: push to_move[i] for i downwards
RECURSIVE Field_push_rev(_, _, _, _)
Field_push_rev(stacks, to, to_move, i) ==
    IF i = 0 THEN stacks
    ELSE Field_push_rev([stacks EXCEPT ![to] = Append(stacks[to], to_move[i])],
                        to, to_move, i - 1)

\* a second loop that walks to_move upwards
RECURSIVE Field_push_fwd(_, _, _, _)
Field_push_fwd(stacks, to, to_move, i) ==
    IF i > Len(to_move) THEN stacks
    ELSE Field_push_fwd([stacks EXCEPT ![to] = Append(stacks[to], to_move[i])],
                        to, to_move, i + 1)

\* apply_move_with_order without the rev() of its second loop
Field_apply_move_with_order_fwd(stacks, count, from, to) ==
    LET r == Field_pop_to_move(stacks, count, from, <<>>)
    IN Field_push_fwd(r.stacks, to, r.to_move, 1)

\* Field::apply_move_with_order
Field_apply_move_with_order(stacks, count, from, to) ==
    LET r == Field_pop_to_move(stacks, count, from, <<>>)
    IN Field_push_rev(r.stacks, to, r.to_move, Len(r.to_move))

\* Field::get_items_on_top
Field_get_items_on_top(stacks) ==
    LET tops == SelectSeq(stacks, LAMBDA st : st # <<>>)
    IN [i \in 1..Len(tops) |-> tops[i][Len(tops[i])]]

(***************************************************************************)
(* Day 6: markers in a stream; the stream is ASCII, so a byte is a char    *)
(***************************************************************************)
PacketMarker == 4
MessageMarker == 14

\* the loop `for i in n..stream.len()` from index i on: the slice
\* stream[i-n..i] is the characters i-n+1 .. i counted from one
RECURSIVE detect_loop(_, _, _)
detect_loop(stream, n, i) ==
    IF i >= Len(stream) THEN None
    ELSE IF Len(Vec_deduplicate(SubSeq(stream, i - n + 1, i))) = n THEN Some(i)
         ELSE detect_loop(stream, n, i + 1)

detect_start_of_packet(stream) == detect_loop(stream, PacketMarker, PacketMarker)

detect_start_of_message(stream) == detect_loop(stream, MessageMarker, MessageMarker)

(***************************************************************************)
(* Day 10: CPU                                                             *)
(***************************************************************************)
Operation_Noop == [op |-> "Noop", value |-> 0]
Operation_Add(value) == [op |-> "Add", value |-> value]

CpuState(reg_x, cycle_count) == [reg_x |-> reg_x, cycle_count |-> cycle_count]

\* Operation::Noop, and the first cycle of Operation::Add:
\* cycle_count += 1; cycle_callback(CpuState { reg_x, cycle_count })
Cpu_cycle(state) ==
    [state |-> CpuState(state.reg_x, state.cycle_count + 1),
     call |-> CpuState(state.reg_x, state.cycle_count + 1)]

\* a second cycle that already shows the operand to the callback
Cpu_add_second_early(state, value) ==
    [state |-> CpuState(state.reg_x + value, state.cycle_count + 1),
     call |-> CpuState(state.reg_x + value, state.cycle_count + 1)]

\* the second cycle of Operation::Add:
\* cycle_count += 1; cycle_callback(CpuState { .. }); reg_x += value
Cpu_add_second(state, value) ==
    [state |-> CpuState(state.reg_x + value, state.cycle_count + 1),
     call |-> CpuState(state.reg_x, state.cycle_count + 1)]

(***************************************************************************)
(* Day 11: monkeys                                                         *)
(***************************************************************************)
\* util::number::gcd and lcm, and NumberExtensions::lcm of a Vec
RECURSIVE gcd(_, _)
gcd(a, b) == IF b = 0 THEN a ELSE gcd(b, a % b)

lcm(left, right) == (left * right) \div gcd(left, right)

RECURSIVE Vec_lcm_fold(_, _)
Vec_lcm_fold(acc, rest) ==
    IF rest = <<>> THEN acc ELSE Vec_lcm_fold(lcm(acc, Head(rest)), Tail(rest))

Vec_lcm(v) == IF v = <<>> THEN 0 ELSE Vec_lcm_fold(Head(v), Tail(v))

\* enum OperationValue and OperationValue::get
OperationValue_Input == <<>>
OperationValue_Value(val) == <<val>>

OperationValue_get(v, input) == IF v = OperationValue_Input THEN input ELSE v[1]

Operation_apply(operation, input) ==
    IF operation.kind = "Add"
    THEN OperationValue_get(operation.lhs, input) + OperationValue_get(operation.rhs, input)
    ELSE OperationValue_get(operation.lhs, input) * OperationValue_get(operation.rhs, input)

\* iter().find(|m| m.id == id): Option of the index of the first such monkey
Simulation_find(monkeys, id) ==
    IF \E i \in 1..Len(monkeys) : monkeys[i].id = id
    THEN Some(CHOOSE i \in 1..Len(monkeys) :
                  /\ monkeys[i].id = id
                  /\ \A j \in 1..(i - 1) : monkeys[j].id # id)
    ELSE None

\* a body that picks the target by the worry value the item came with
Monkey_yeet_by_old_value(monkey, item, version, lcm_of_tests) ==
    LET applied == Operation_apply(monkey.operation, item)
        relieved == IF version = "Puzzle1" THEN applied \div 3 ELSE applied
        value == relieved % lcm_of_tests
    IN [target_id |-> IF item % monkey.test.div_by = 0
                      THEN monkey.test.true_to ELSE monkey.test.false_to,
        value |-> value]

\* the body of the loop over items_to_yeet: the (target, to_yeet) pushed
Monkey_yeet(monkey, item, version, lcm_of_tests) ==
    LET applied == Operation_apply(monkey.operation, item)
        relieved == IF version = "Puzzle1" THEN applied \div 3 ELSE applied
        value == relieved % lcm_of_tests
    IN [target_id |-> IF value % monkey.test.div_by = 0
                      THEN monkey.test.true_to ELSE monkey.test.false_to,
        value |-> value]

\* the loop over yeets: push on the first monkey with the target id, if any
RECURSIVE Simulation_push_yeets(_, _)
Simulation_push_yeets(monkeys, yeets) ==
    IF yeets = <<>> THEN monkeys
    ELSE LET t == Simulation_find(monkeys, Head(yeets).target_id)
         IN Simulation_push_yeets(
                IF t = None THEN monkeys
                ELSE [monkeys EXCEPT ![t[1]].items = Append(@, Head(yeets).value)],
                Tail(yeets))

\* Simulation::inspect_and_yeet(monkey_id)
Simulation_inspect_and_yeet(monkeys, version, monkey_id) ==
    LET lcm_of_tests == Vec_lcm([i \in 1..Len(monkeys) |-> monkeys[i].test.div_by])
        m == Simulation_find(monkeys, monkey_id)
    IN IF m = None THEN monkeys
       ELSE LET monkey == monkeys[m[1]]
                yeets == [k \in 1..Len(monkey.items) |->
                             Monkey_yeet(monkey, monkey.items[k], version, lcm_of_tests)]
            IN Simulation_push_yeets(
                   [monkeys EXCEPT ![m[1]].items = <<>>,
                                   ![m[1]].inspect_count = @ + Len(monkey.items)],
                   yeets)

\* Simulation::play_round from the monkey at index i on
RECURSIVE Simulation_play_round_from(_, _, _, _)
Simulation_play_round_from(monkeys, version, monkey_ids, i) ==
    IF i > Len(monkey_ids) THEN monkeys
    ELSE Simulation_play_round_from(
             Simulation_inspect_and_yeet(monkeys, version, monkey_ids[i]),
             version, monkey_ids, i + 1)

Simulation_play_round(monkeys, version) ==
    Simulation_play_round_from(monkeys, version,
                               [i \in 1..Len(monkeys) |-> monkeys[i].id], 1)

(***************************************************************************)
(* Day 12: HeightMap                                                       *)
(***************************************************************************)
Letters == <<"a", "b", "c", "d", "e", "f", "g", "h", "i", "j", "k", "l", "m",
             "n", "o", "p", "q", "r", "s", "t", "u", "v", "w", "x", "y", "z">>
IsLetter(c) == \E i \in 1..Len(Letters) : Letters[i] = c
\* (line[x] as usize) - ('a' as usize)
LetterHeight(c) == (CHOOSE i \in 1..Len(Letters) : Letters[i] = c) - 1

HeightMap_Err ==
    [ok |-> FALSE, area |-> Grid_default, start |-> Point(0, 0), end |-> Point(0, 0)]

\* impl FromStr for HeightMap, the loop `for x in 0..line.len()` from column
\* x on: 'S' and 'E' set start and end (the last of each wins) with heights
\* 0 and 25, a lower-case letter sets its index, anything else is an Err.
\* acc holds area and the Options start and end.
RECURSIVE HeightMap_parse_line(_, _, _, _)
HeightMap_parse_line(acc, line, x, y) ==
    IF x >= Len(line) THEN acc
    ELSE LET point == Point(x, y)
             c == line[x + 1]
         IN IF c = "S"
            THEN HeightMap_parse_line(
                     [acc EXCEPT !.area = Grid_set(@, point, 0), !.start = Some(point)],
                     line, x + 1, y)
            ELSE IF c = "E"
            THEN HeightMap_parse_line(
                     [acc EXCEPT !.area = Grid_set(@, point, 25), !.end = Some(point)],
                     line, x + 1, y)
            ELSE IF IsLetter(c)
            THEN HeightMap_parse_line(
                     [acc EXCEPT !.area = Grid_set(@, point, LetterHeight(c))],
                     line, x + 1, y)
            ELSE [acc EXCEPT !.ok = FALSE]

\* the loop `for y in 0..lines.len()` from row y on, left by the first Err
RECURSIVE HeightMap_parse_lines(_, _, _)
HeightMap_parse_lines(acc, lines, y) ==
    IF y >= Len(lines) \/ ~acc.ok THEN acc
    ELSE HeightMap_parse_lines(HeightMap_parse_line(acc, lines[y + 1], 0, y), lines, y + 1)

\* impl FromStr for HeightMap: an Err as well when start or end was never set
HeightMap_from_str(input) ==
    LET acc == HeightMap_parse_lines(
                   [ok |-> TRUE, area |-> Grid_default, start |-> None, end |-> None],
                   str_lines(input), 0)
    IN IF acc.ok /\ acc.start # None /\ acc.end # None
       THEN [ok |-> TRUE, area |-> acc.area, start |-> acc.start[1], end |-> acc.end[1]]
       ELSE HeightMap_Err

\* Point::cmp, used only to break ties between queue entries of one distance
Point_cmp_greater(a, b) == a.x > b.x \/ (a.x = b.x /\ a.y > b.y)

PrioPoint(point, distance, height) ==
    [point |-> point, distance |-> distance, height |-> height]

\* impl Ord for PrioPoint: cmp(a, b) = Greater
PrioPoint_cmp_greater(a, b) ==
    \/ b.distance > a.distance
    \/ b.distance = a.distance /\ Point_cmp_greater(a.point, b.point)

\* BinaryHeap::pop on a non-empty queue: the greatest entry
BinaryHeap_pop(queue) ==
    CHOOSE c \in queue : \A o \in queue \ {c} : PrioPoint_cmp_greater(c, o)

\* a loop over the neighbours that never steps up
RECURSIVE HeightMap_shortest_neighbors_no_climb(_, _, _, _, _)
HeightMap_shortest_neighbors_no_climb(area, current, neighbors, queue, values) ==
    IF neighbors = <<>> THEN [queue |-> queue, values |-> values]
    ELSE LET neighbor == Head(neighbors)
             val == Grid_get(area, neighbor)
             dist == Grid_get(values, neighbor)
         IN IF val = None THEN
                HeightMap_shortest_neighbors_no_climb(area, current, Tail(neighbors), queue, values)
            ELSE IF val[1] > current.height THEN
                HeightMap_shortest_neighbors_no_climb(area, current, Tail(neighbors), queue, values)
            ELSE IF dist # None /\ dist[1] <= current.distance + 1 THEN
                HeightMap_shortest_neighbors_no_climb(area, current, Tail(neighbors), queue, values)
            ELSE
                HeightMap_shortest_neighbors_no_climb(area, current, Tail(neighbors),
                    queue \cup {PrioPoint(neighbor, current.distance + 1, val[1])},
                    Grid_set(values, neighbor, current.distance + 1))

\* find_shortest_route, the loop over the neighbours of current
RECURSIVE HeightMap_shortest_neighbors(_, _, _, _, _)
HeightMap_shortest_neighbors(area, current, neighbors, queue, values) ==
    IF neighbors = <<>> THEN [queue |-> queue, values |-> values]
    ELSE LET neighbor == Head(neighbors)
             val == Grid_get(area, neighbor)
             dist == Grid_get(values, neighbor)
         IN IF val = None THEN
                HeightMap_shortest_neighbors(area, current, Tail(neighbors), queue, values)
            ELSE IF val[1] > current.height + 1 THEN
                HeightMap_shortest_neighbors(area, current, Tail(neighbors), queue, values)
            ELSE IF dist # None /\ dist[1] <= current.distance + 1 THEN
                HeightMap_shortest_neighbors(area, current, Tail(neighbors), queue, values)
            ELSE
                HeightMap_shortest_neighbors(area, current, Tail(neighbors),
                    queue \cup {PrioPoint(neighbor, current.distance + 1, val[1])},
                    Grid_set(values, neighbor, current.distance + 1))

\* find_shortest_route, the loop `while let Some(current) = queue.pop()`
RECURSIVE HeightMap_shortest_loop(_, _, _, _)
HeightMap_shortest_loop(area, end, queue, values) ==
    IF queue = {} THEN None
    ELSE LET current == BinaryHeap_pop(queue)
             rest == queue \ {current}
             dist == Grid_get(values, current.point)
         IN IF current.point = end THEN Some(current.distance)
            ELSE IF dist # None /\ current.distance > dist[1]
            THEN HeightMap_shortest_loop(area, end, rest, values)
            ELSE LET n == HeightMap_shortest_neighbors(area, current,
                              Grid_get_adjacent_points(area, current.point, "NonDiagonal"),
                              rest, values)
                 IN HeightMap_shortest_loop(area, end, n.queue, n.values)

\* HeightMap::find_shortest_route
HeightMap_find_shortest_route(map) ==
    HeightMap_shortest_loop(map.area, map.end,
                            {PrioPoint(map.start, 0, 0)},
                            Grid_set(Grid_default, map.start, 0))

\* find_scenic_route, the loop over the neighbours of current
RECURSIVE HeightMap_scenic_neighbors(_, _, _, _, _)
HeightMap_scenic_neighbors(area, current, neighbors, queue, values) ==
    IF neighbors = <<>> THEN [queue |-> queue, values |-> values]
    ELSE LET neighbor == Head(neighbors)
             val == Grid_get(area, neighbor)
             dist == Grid_get(values, neighbor)
         IN IF val = None THEN
                HeightMap_scenic_neighbors(area, current, Tail(neighbors), queue, values)
            ELSE IF current.height > val[1] + 1 THEN
                HeightMap_scenic_neighbors(area, current, Tail(neighbors), queue, values)
            ELSE IF dist # None /\ dist[1] <= current.distance + 1 THEN
                HeightMap_scenic_neighbors(area, current, Tail(neighbors), queue, values)
            ELSE
                HeightMap_scenic_neighbors(area, current, Tail(neighbors),
                    queue \cup {PrioPoint(neighbor, current.distance + 1, val[1])},
                    Grid_set(values, neighbor, current.distance + 1))

\* find_scenic_route, the loop `while let Some(current) = queue.pop()`
RECURSIVE HeightMap_scenic_loop(_, _, _)
HeightMap_scenic_loop(area, queue, values) ==
    IF queue = {} THEN None
    ELSE LET current == BinaryHeap_pop(queue)
             rest == queue \ {current}
             dist == Grid_get(values, current.point)
         IN IF current.height = 0 THEN Some(current.distance)
            ELSE IF dist # None /\ current.distance > dist[1]
            THEN HeightMap_scenic_loop(area, rest, values)
            ELSE LET n == HeightMap_scenic_neighbors(area, current,
                              Grid_get_adjacent_points(area, current.point, "NonDiagonal"),
                              rest, values)
                 IN HeightMap_scenic_loop(area, n.queue, n.values)

\* HeightMap::find_scenic_route
HeightMap_find_scenic_route(map) ==
    HeightMap_scenic_loop(map.area,
                          {PrioPoint(map.end, 0, 25)},
                          Grid_set(Grid_default, map.end, 0))

(***************************************************************************)
(* Day 13: Packet                                                          *)
(***************************************************************************)
\* enum Packet { List(Vec<Packet>), Value(usize) }
Packet_List(items) == [kind |-> "List", val |-> 0, items |-> items]
Packet_Value(val) == [kind |-> "Value", val |-> val, items |-> <<>>]

\* usize::cmp
usize_cmp(lhs, rhs) ==
    IF lhs < rhs THEN "Less" ELSE IF lhs = rhs THEN "Equal" ELSE "Greater"

RECURSIVE Packet_cmp(_, _)

\* a loop that stops at the end of the shorter list
RECURSIVE Packet_cmp_loop_zip(_, _, _)
Packet_cmp_loop_zip(lhs, rhs, i) ==
    IF i >= Max(Len(lhs), Len(rhs)) THEN "Equal"
    ELSE IF i >= Len(lhs) \/ i >= Len(rhs) THEN "Equal"
    ELSE LET res == Packet_cmp(lhs[i + 1], rhs[i + 1])
         IN IF res = "Equal" THEN Packet_cmp_loop_zip(lhs, rhs, i + 1) ELSE res

\* impl Ord for Packet, the List / List arm: the loop `for i in 0..max_len`
\* from index i on, and the Ordering::Equal behind it
RECURSIVE Packet_cmp_loop(_, _, _)
Packet_cmp_loop(lhs, rhs, i) ==
    IF i >= Max(Len(lhs), Len(rhs)) THEN "Equal"
    ELSE IF i >= Len(lhs) /\ i >= Len(rhs) THEN "Panic"
    ELSE IF i >= Len(lhs) THEN "Less"
    ELSE IF i >= Len(rhs) THEN "Greater"
    ELSE LET res == Packet_cmp(lhs[i + 1], rhs[i + 1])
         IN IF res = "Equal" THEN Packet_cmp_loop(lhs, rhs, i + 1) ELSE res

\* impl Ord for Packet: cmp, "Panic" standing for the panic!
Packet_cmp(self, other) ==
    IF self.kind = "Value" /\ other.kind = "Value" THEN usize_cmp(self.val, other.val)
    ELSE IF self.kind = "List" /\ other.kind = "List"
    THEN Packet_cmp_loop(self.items, other.items, 0)
    ELSE IF self.kind = "List"
    THEN Packet_cmp(self, Packet_List(<<other>>))
    ELSE Packet_cmp(Packet_List(<<self>>), other)

(***************************************************************************)
(* Day 15: sensors                                                         *)
(***************************************************************************)
\* Point::manhattan_distance: |dx| + |dy|
Point_manhattan_distance(p, other) == Abs(p.x - other.x) + Abs(p.y - other.y)

\* the Sensor built at the end of Sensor::from_str
Sensor(location, beacon) ==
    [location |-> location, beacon |-> beacon,
     area |-> [center |-> location, length |-> Point_manhattan_distance(location, beacon)]]

\* RangeInclusive<isize>: is_empty and count
Range(start, end) == [start |-> start, end |-> end]
Range_is_empty(r) == r.start > r.end
Range_count(r) == IF Range_is_empty(r) THEN 0 ELSE r.end - r.start + 1

\* ManhattanArea::get_cols_for_line
ManhattanArea_get_cols_for_line(area, y) ==
    LET dist_y == Abs(area.center.y - y)
        dist_x == area.length - dist_y
    IN IF dist_x < 0 THEN None
       ELSE Some(Range(area.center.x - dist_x, area.center.x + dist_x))

\* get_coverage_on_line, fn overlap_range
overlap_range(range, other) ==
    Range(Max(other.start, range.start), Min(other.end, range.end))

\* get_coverage_on_line, the loop `for coverage in coverages.clone()` from
\* index i of the clone on
RECURSIVE Coverage_push_overlaps(_, _, _, _)
Coverage_push_overlaps(xs, clone, i, coverages) ==
    IF i > Len(clone) THEN coverages
    ELSE LET overlap == overlap_range(xs, clone[i].range)
         IN Coverage_push_overlaps(xs, clone, i + 1,
                IF ~Range_is_empty(overlap)
                THEN Append(coverages, [range |-> overlap, is_overlap |-> ~clone[i].is_overlap])
                ELSE coverages)

\* get_coverage_on_line, the loop `for sensor in sensors` from index i on
RECURSIVE Coverage_collect(_, _, _, _)
Coverage_collect(sensors, line, i, coverages) ==
    IF i > Len(sensors) THEN coverages
    ELSE LET xs == ManhattanArea_get_cols_for_line(sensors[i].area, line)
         IN Coverage_collect(sensors, line, i + 1,
                IF xs = None THEN coverages
                ELSE Append(Coverage_push_overlaps(xs[1], coverages, 1, coverages),
                            [range |-> xs[1], is_overlap |-> FALSE]))

\* get_coverage_on_line, the loop `for coverage in coverages` from index i
\* on; result is a usize, so a subtraction below zero is an underflow
RECURSIVE Coverage_sum(_, _, _)
Coverage_sum(coverages, i, acc) ==
    IF i > Len(coverages) THEN acc
    ELSE LET n == Range_count(coverages[i].range)
             next == IF coverages[i].is_overlap THEN acc.result - n ELSE acc.result + n
         IN Coverage_sum(coverages, i + 1,
                [result |-> next, underflow |-> acc.underflow \/ next < 0])

\* Vec::dedup: removes consecutive repeated elements
RECURSIVE Vec_dedup(_)
Vec_dedup(v) ==
    IF Len(v) <= 1 THEN v
    ELSE IF v[1] = v[2] THEN Vec_dedup(Tail(v))
    ELSE <<v[1]>> \o Vec_dedup(Tail(v))

\* the elements of a sequence that are beacons on the line, in order
RECURSIVE Sensors_beacons_on_line(_, _)
Sensors_beacons_on_line(sensors, line) ==
    IF sensors = <<>> THEN <<>>
    ELSE (IF Head(sensors).beacon.y = line THEN <<Head(sensors).beacon>> ELSE <<>>)
         \o Sensors_beacons_on_line(Tail(sensors), line)

\* get_coverage_on_line: the usize returned, and whether a subtraction went
\* below zero on the way
get_coverage_on_line(sensors, line) ==
    LET coverages == Coverage_collect(sensors, line, 1, <<>>)
        sum == Coverage_sum(coverages, 1, [result |-> 0, underflow |-> FALSE])
        beacons_on_line == Vec_dedup(Sensors_beacons_on_line(sensors, line))
        result == sum.result - Len(beacons_on_line)
    IN [result |-> result, underflow |-> sum.underflow \/ result < 0]

(***************************************************************************)
(* Day 17: Tetris                                                          *)
(***************************************************************************)
\* the elements of a sequence
Elems(s) == {s[i] : i \in DOMAIN s}

\* Movement::translate
Movement_translate(movement, p) ==
    IF movement = "Left" THEN Point_add(p, <<-1, 0>>)
    ELSE IF movement = "Right" THEN Point_add(p, <<1, 0>>)
    ELSE Point_add(p, <<0, -1>>)

\* Shape::get_points
Shape_get_points(shape, bottom_left) ==
    LET offsets ==
            CASE shape = "HorBlock" -> << <<0, 0>>, <<1, 0>>, <<2, 0>>, <<3, 0>> >>
              [] shape = "Plus" -> << <<1, 0>>, <<0, 1>>, <<1, 1>>, <<2, 1>>, <<1, 2>> >>
              [] shape = "WeirdL" -> << <<0, 0>>, <<1, 0>>, <<2, 0>>, <<2, 1>>, <<2, 2>> >>
              [] shape = "VerBlock" -> << <<0, 0>>, <<0, 1>>, <<0, 2>>, <<0, 3>> >>
              [] shape = "Square" -> << <<0, 0>>, <<1, 0>>, <<0, 1>>, <<1, 1>> >>
    IN [i \in 1..Len(offsets) |-> Point_add(bottom_left, offsets[i])]

\* the string drop_block stores for a shape
Shape_mark(shape) ==
    CASE shape = "HorBlock" -> "1" [] shape = "Plus" -> "2" [] shape = "WeirdL" -> "3"
      [] shape = "VerBlock" -> "4" [] shape = "Square" -> "5"

\* Tetris::create; cave_width is the same 0..=6 in every Tetris
Tetris_cave_width == <<0, 1, 2, 3, 4, 5, 6>>

Tetris_create(tape) ==
    [blocks |-> 0, formation |-> Grid_default, move_tape |-> tape, move_loc |-> 0]

\* Tetris::get_drop_shape
Tetris_get_drop_shape(t) ==
    <<"HorBlock", "Plus", "WeirdL", "VerBlock", "Square">>[(t.blocks % 5) + 1]

\* Tetris::get_drop_loc
Tetris_get_drop_loc(t) == Point(2, t.formation.bounds.height + 3)

\* drop_block, the test before `drop_loc = new_bl`
Tetris_can_shift(t, shape, new_bl) ==
    \A p \in Elems(Shape_get_points(shape, new_bl)) :
        /\ p.x >= Tetris_cave_width[1] /\ p.x <= Tetris_cave_width[Len(Tetris_cave_width)]
        /\ Grid_get(t.formation, p) = None

\* drop_block, the loop from the bottom-left position drop_loc on
RECURSIVE Tetris_drop_loop(_, _, _)
Tetris_drop_loop(t, shape, drop_loc) ==
    LET movement == t.move_tape[t.move_loc + 1]
        move_loc == (t.move_loc + 1) % Len(t.move_tape)
        new_bl == Movement_translate(movement, drop_loc)
        shifted == IF Tetris_can_shift(t, shape, new_bl) THEN new_bl ELSE drop_loc
        down_loc == Movement_translate("Down", shifted)
    IN IF \A p \in Elems(Shape_get_points(shape, down_loc)) :
              p.y >= 0 /\ Grid_get(t.formation, p) = None
       THEN Tetris_drop_loop([t EXCEPT !.move_loc = move_loc], shape, down_loc)
       ELSE [t EXCEPT !.move_loc = move_loc,
                      !.blocks = @ + 1,
                      !.formation = Cave_set_all(@, Shape_get_points(shape, shifted),
                                                 Shape_mark(shape))]

\* Tetris::drop_block: the Tetris after the call
Tetris_drop_block(t) == Tetris_drop_loop(t, Tetris_get_drop_shape(t), Tetris_get_drop_loc(t))

\* get_top_locs, the loop `while y > 0` for column x started at y: the y it
\* ends with is the highest occupied one of y, y - 1, .., 1, or else 0, and
\* y itself when the loop is not entered
Tetris_top_y(t, x, y) ==
    LET ys == {v \in 1..y : Grid_get(t.formation, Point(x, v)) # None}
    IN IF y <= 0 THEN y
       ELSE IF ys = {} THEN 0
       ELSE CHOOSE v \in ys : \A o \in ys : o <= v

\* Tetris::get_top_locs
Tetris_get_top_locs(t) ==
    LET height == t.formation.bounds.height
    IN [i \in 1..Len(Tetris_cave_width) |->
           height - Tetris_top_y(t, Tetris_cave_width[i], height - 1)]

\* get_points_from_floor, the loops `for y in 1..=deepest_point`,
\* `for x in cave_width`: the points visited, in the order visited
Tetris_floor_scan(t, deepest_point) ==
    LET height == t.formation.bounds.height
        w == Len(Tetris_cave_width)
    IN [k \in 1..(deepest_point * w) |->
           Point(Tetris_cave_width[((k - 1) % w) + 1], height - (((k - 1) \div w) + 1))]

\* Tetris::get_points_from_floor
Tetris_get_points_from_floor(t) ==
    LET locs == Tetris_get_top_locs(t)
        deepest_point == CHOOSE m \in Elems(locs) : \A o \in Elems(locs) : o <= m
        height == t.formation.bounds.height
        floor == height - deepest_point
        occupied(point) == Grid_get(t.formation, point) # None
        found == SelectSeq(Tetris_floor_scan(t, deepest_point), occupied)
    IN [k \in 1..Len(found) |-> Point_add(found[k], <<0, -1 * floor>>)]

\* a key without the points
Tetris_cache_key_no_points(t) ==
    [drop_shape |-> Tetris_get_drop_shape(t), tape_pos |-> t.move_loc, points |-> <<>>]

\* get_height_after, the CacheKey built in the loop
Tetris_cache_key(t) ==
    [drop_shape |-> Tetris_get_drop_shape(t), tape_pos |-> t.move_loc,
     points |-> Tetris_get_points_from_floor(t)]

\* get_height_after, the loop: [done |-> TRUE, height] when blocks reaches
\* drops, else the repetition_start, repetition_amount and repetition_height
\* of the first key met again.  cache is a set of [key, blocks, height].
RECURSIVE Tetris_find_repetition(_, _, _)
Tetris_find_repetition(t, drops, cache) ==
    LET blocks == t.blocks
        height == t.formation.bounds.height
        key == Tetris_cache_key(t)
    IN IF blocks = drops
       THEN [done |-> TRUE, height |-> height,
             repetition_start |-> 0, repetition_amount |-> 0, repetition_height |-> 0]
       ELSE IF \E e \in cache : e.key = key
       THEN LET old == CHOOSE e \in cache : e.key = key
            IN [done |-> FALSE, height |-> height,
                repetition_start |-> old.blocks,
                repetition_amount |-> blocks - old.blocks,
                repetition_height |-> height - old.height]
       ELSE Tetris_find_repetition(Tetris_drop_block(t), drops,
                cache \cup {[key |-> key, blocks |-> blocks, height |-> height]})

\* Tetris::get_height_after
RECURSIVE Tetris_get_height_after(_, _)
Tetris_get_height_after(drops, tape) ==
    LET r == Tetris_find_repetition(Tetris_create(tape), drops, {})
    IN IF r.done THEN r.height
       ELSE LET repetitions == (drops - r.repetition_start) \div r.repetition_amount
                rep_end == r.repetition_start + (repetitions * r.repetition_amount)
                rest == drops - rep_end
                rep_height == repetitions * r.repetition_height
                rest_height == Tetris_get_height_after(r.repetition_start + rest, tape)
            IN rep_height + rest_height

(***************************************************************************)
(* Day 25: SNAFU numbers.  An isize is wider than the integers of the      *)
(* model checker, so a number is kept as three limbs <<l0, l1, l2>> of      *)
(* value l0 + l1 * 5^12 + l2 * 5^24 with 0 <= l0, l1 < 5^12 and l2 of       *)
(* either sign.                                                            *)
(***************************************************************************)
BigBase == 5^12

Big_norm(a, b, c) ==
    LET b1 == b + (a \div BigBase)
    IN <<a % BigBase, b1 % BigBase, c + (b1 \div BigBase)>>

Big(n) == Big_norm(n, 0, 0)
Big_add(u, v) == Big_norm(u[1] + v[1], u[2] + v[2], u[3] + v[3])
Big_scale(v, k) == Big_norm(v[1] * k, v[2] * k, v[3] * k)
Big_neg(v) == Big_scale(v, -1)
Big_sub(u, v) == Big_add(u, Big_neg(v))
Big_le(u, v) == Big_sub(v, u)[3] >= 0
Big_lt(u, v) == ~Big_le(v, u)

\* division by 2 of a number that is not negative
Big_half_nat(v) ==
    LET b1 == v[2] + (v[3] % 2) * BigBase
        a1 == v[1] + (b1 % 2) * BigBase
    IN <<a1 \div 2, b1 \div 2, v[3] \div 2>>

\* isize::MAX, isize::MIN and 2^64
isize_MAX == <<233682057, 181275612, 154>>
isize_MIN == <<10458567, 62865012, -155>>
Big_2_64 == <<223223491, 118410600, 309>>

\* the outcome of an arithmetic overflow in a build with overflow checks
Overflow == <<-1, -1, 0>>

\* the isize an exact result becomes: itself when it fits, else a panic in a
\* build with overflow checks ("debug") and the wrapped value without them
RECURSIVE isize_of(_, _)
isize_of(v, build) ==
    IF Big_le(isize_MIN, v) /\ Big_le(v, isize_MAX) THEN v
    ELSE IF build = "debug" THEN Overflow
    ELSE IF Big_lt(isize_MAX, v) THEN isize_of(Big_sub(v, Big_2_64), build)
    ELSE isize_of(Big_add(v, Big_2_64), build)

isize_add(u, v, build) ==
    IF u = Overflow \/ v = Overflow THEN Overflow ELSE isize_of(Big_add(u, v), build)
isize_sub(u, v, build) ==
    IF u = Overflow \/ v = Overflow THEN Overflow ELSE isize_of(Big_sub(u, v), build)
isize_mul(v, k, build) ==
    IF v = Overflow THEN Overflow ELSE isize_of(Big_scale(v, k), build)
isize_abs(v, build) ==
    IF v = Overflow THEN Overflow
    ELSE IF v[3] < 0 THEN isize_of(Big_neg(v), build) ELSE v
\* isize division by 2, which truncates towards zero
isize_half(v) ==
    IF v = Overflow THEN Overflow
    ELSE IF v[3] < 0 THEN Big_neg(Big_half_nat(Big_neg(v))) ELSE Big_half_nat(v)

\* 5_isize.pow(n)
RECURSIVE isize_pow5(_, _)
isize_pow5(n, build) ==
    IF n = 0 THEN Big(1) ELSE isize_mul(isize_pow5(n - 1, build), 5, build)

\* the value of a SNAFU character, None for any other character
Snafu_digit(c) ==
    CASE c = "2" -> Some(2) [] c = "1" -> Some(1) [] c = "0" -> Some(0)
      [] c = "-" -> Some(-1) [] c = "=" -> Some(-2) [] OTHER -> None

\* decode_snafu_number, the sum over the reversed characters from index idx
\* on; vals are the values of the characters, last character first
RECURSIVE Snafu_decode_sum(_, _, _, _)
Snafu_decode_sum(vals, idx, acc, build) ==
    IF idx >= Len(vals) THEN acc
    ELSE Snafu_decode_sum(vals, idx + 1,
             isize_add(acc, isize_mul(isize_pow5(idx, build), vals[idx + 1], build), build),
             build)

\* decode_snafu_number: [ok, value], value Overflow for an overflow panic
decode_snafu_number(input, build) ==
    IF \E i \in 1..Len(input) : Snafu_digit(input[i]) = None
    THEN [ok |-> FALSE, value |-> Big(0)]
    ELSE [ok |-> TRUE,
          value |-> Snafu_decode_sum(
                        [i \in 1..Len(input) |-> Snafu_digit(input[Len(input) + 1 - i])[1]],
                        0, Big(0), build)]

\* encode_snafu_number, fn get_max_n: the loop from n on; None for an
\* overflow panic of the power
RECURSIVE Snafu_get_max_n(_, _, _)
Snafu_get_max_n(input, n, build) ==
    LET p == isize_pow5(n, build)
    IN IF p = Overflow THEN None
       ELSE IF Big_lt(input, p) THEN Some(n)
       ELSE Snafu_get_max_n(input, n + 1, build)

\* encode_snafu_number, the body of the loop `for n in (0..=max_n).rev()`:
\* the value pushed and the new rest, or the panic
Snafu_encode_step(n, rest, build) ==
    LET n_size == isize_pow5(n, build)
        max_lower_size == isize_half(isize_sub(n_size, Big(1), build))
        n_size2 == isize_mul(n_size, 2, build)
        fits(v) == Big_le(isize_abs(v, build), max_lower_size)
        m2 == isize_add(rest, n_size2, build)
        m1 == isize_add(rest, n_size, build)
        p1 == isize_sub(rest, n_size, build)
        p2 == isize_sub(rest, n_size2, build)
        over(v) == v = Overflow \/ isize_abs(v, build) = Overflow
    IN IF Overflow \in {n_size, max_lower_size, n_size2} \/ over(m2)
       THEN [panic |-> "overflow", value |-> 0, rest |-> rest]
       ELSE IF fits(m2) THEN [panic |-> "", value |-> -2, rest |-> m2]
       ELSE IF over(m1) THEN [panic |-> "overflow", value |-> 0, rest |-> rest]
       ELSE IF fits(m1) THEN [panic |-> "", value |-> -1, rest |-> m1]
       ELSE IF isize_abs(rest, build) = Overflow
       THEN [panic |-> "overflow", value |-> 0, rest |-> rest]
       ELSE IF fits(rest) THEN [panic |-> "", value |-> 0, rest |-> rest]
       ELSE IF over(p1) THEN [panic |-> "overflow", value |-> 0, rest |-> rest]
       ELSE IF fits(p1) THEN [panic |-> "", value |-> 1, rest |-> p1]
       ELSE IF over(p2) THEN [panic |-> "overflow", value |-> 0, rest |-> rest]
       ELSE IF fits(p2) THEN [panic |-> "", value |-> 2, rest |-> p2]
       ELSE [panic |-> "Couldn't determine number", value |-> 0, rest |-> rest]

\* encode_snafu_number, the loop `for n in (0..=max_n).rev()` from n on
RECURSIVE Snafu_encode_loop(_, _, _, _)
Snafu_encode_loop(n, rest, values, build) ==
    IF n < 0 THEN [panic |-> "", values |-> values]
    ELSE LET s == Snafu_encode_step(n, rest, build)
         IN IF s.panic # "" THEN [panic |-> s.panic, values |-> values]
            ELSE Snafu_encode_loop(n - 1, s.rest, Append(values, s.value), build)

\* skip_while(|v| 0.eq(*v))
RECURSIVE Snafu_skip_zeros(_)
Snafu_skip_zeros(values) ==
    IF values # <<>> /\ Head(values) = 0 THEN Snafu_skip_zeros(Tail(values)) ELSE values

Snafu_char(v) ==
    CASE v = -2 -> "=" [] v = -1 -> "-" [] v = 0 -> "0" [] v = 1 -> "1" [] v = 2 -> "2"

\* encode_snafu_number: the String returned, or the panic
encode_snafu_number(input, build) ==
    LET max_n == Snafu_get_max_n(input, 1, build)
    IN IF max_n = None THEN [panic |-> "overflow", text |-> <<>>]
       ELSE LET r == Snafu_encode_loop(max_n[1], input, <<>>, build)
                kept == Snafu_skip_zeros(r.values)
            IN IF r.panic # "" THEN [panic |-> r.panic, text |-> <<>>]
               ELSE [panic |-> "", text |-> [i \in 1..Len(kept) |-> Snafu_char(kept[i])]]

(***************************************************************************)
(* Day 19: the geode simulation.  A Simulation is kept without its history  *)
(* and without the three build_* flags, which nothing reads.                *)
(***************************************************************************)
BOM(ore, clay, obsidian) == [ore |-> ore, clay |-> clay, obsidian |-> obsidian]

Blueprint_max_ore(bp) ==
    Max(Max(Max(bp.ore_robot.ore, bp.clay_robot.ore), bp.obsidian_robot.ore), bp.geode_robot.ore)
Blueprint_max_clay(bp) ==
    Max(Max(Max(bp.ore_robot.clay, bp.clay_robot.clay), bp.obsidian_robot.clay), bp.geode_robot.clay)
Blueprint_max_obsidian(bp) ==
    Max(Max(Max(bp.ore_robot.obsidian, bp.clay_robot.obsidian), bp.obsidian_robot.obsidian),
        bp.geode_robot.obsidian)

\* Simulation::new
GeodeSim_new ==
    [time_spend |-> 0, ore |-> 0, clay |-> 0, obsidian |-> 0, geode |-> 0,
     ore_bots |-> 1, clay_bots |-> 0, obsidian_bots |-> 0, geode_bots |-> 0]

\* impl Ord for Simulation: "Less", "Equal" or "Greater"
GeodeSim_cmp(a, b) ==
    IF a.time_spend # b.time_spend THEN usize_cmp(a.time_spend, b.time_spend)
    ELSE IF a.geode # b.geode THEN usize_cmp(a.geode, b.geode)
    ELSE usize_cmp(a.geode_bots, b.geode_bots)

GeodeSim_has_materials_for(sim, bom) ==
    sim.ore >= bom.ore /\ sim.clay >= bom.clay /\ sim.obsidian >= bom.obsidian

\* time_to_allow_building::time_to
GeodeSim_time_to(num, per_tick) ==
    IF num % per_tick = 0 THEN num \div per_tick ELSE (num \div per_tick) + 1

\* Simulation::time_to_allow_building
GeodeSim_time_to_allow_building(sim, bom) ==
    IF GeodeSim_has_materials_for(sim, bom) THEN Some(0)
    ELSE IF \/ bom.ore > sim.ore /\ sim.ore_bots = 0
            \/ bom.clay > sim.clay /\ sim.clay_bots = 0
            \/ bom.obsidian > sim.obsidian /\ sim.obsidian_bots = 0
    THEN None
    ELSE LET ore_time == IF bom.ore > sim.ore
                         THEN GeodeSim_time_to(bom.ore - sim.ore, sim.ore_bots) ELSE 0
             clay_time == IF bom.clay > sim.clay
                          THEN GeodeSim_time_to(bom.clay - sim.clay, sim.clay_bots) ELSE 0
             obsidian_time == IF bom.obsidian > sim.obsidian
                              THEN GeodeSim_time_to(bom.obsidian - sim.obsidian, sim.obsidian_bots)
                              ELSE 0
         IN Some(Max(Max(ore_time, clay_time), obsidian_time))

\* Simulation::time_jump
GeodeSim_time_jump(sim, time) ==
    [sim EXCEPT !.time_spend = @ + time,
                !.ore = @ + sim.ore_bots * time,
                !.clay = @ + sim.clay_bots * time,
                !.obsidian = @ + sim.obsidian_bots * time,
                !.geode = @ + sim.geode_bots * time]

\* the part the four jump_build_*_bot functions share: wait for the materials
\* of bom, spend one more minute and pay; None when the bot would not be
\* ready before time_limit
GeodeSim_jump_pay(sim, bom, time_limit) ==
    LET time == GeodeSim_time_to_allow_building(sim, bom)
    IN IF time = None THEN None
       ELSE IF sim.time_spend + time[1] + 1 >= time_limit THEN None
       ELSE LET res == GeodeSim_time_jump(sim, time[1] + 1)
            IN Some([res EXCEPT !.ore = @ - bom.ore,
                                !.clay = @ - bom.clay,
                                !.obsidian = @ - bom.obsidian])

GeodeSim_add_bot(paid, kind) ==
    IF paid = None THEN None
    ELSE Some(CASE kind = "ore" -> [paid[1] EXCEPT !.ore_bots = @ + 1]
                [] kind = "clay" -> [paid[1] EXCEPT !.clay_bots = @ + 1]
                [] kind = "obsidian" -> [paid[1] EXCEPT !.obsidian_bots = @ + 1]
                [] kind = "geode" -> [paid[1] EXCEPT !.geode_bots = @ + 1])


GeodeSim_jump_build_ore_bot(sim, bp, time_limit) ==
    IF sim.ore_bots >= Blueprint_max_ore(bp) THEN None
    ELSE GeodeSim_add_bot(GeodeSim_jump_pay(sim, bp.ore_robot, time_limit), "ore")

GeodeSim_jump_build_clay_bot(sim, bp, time_limit) ==
    IF sim.clay_bots >= Blueprint_max_clay(bp) THEN None
    ELSE GeodeSim_add_bot(GeodeSim_jump_pay(sim, bp.clay_robot, time_limit), "clay")

GeodeSim_jump_build_obsidian_bot(sim, bp, time_limit) ==
    IF sim.obsidian_bots >= Blueprint_max_obsidian(bp) THEN None
    ELSE GeodeSim_add_bot(GeodeSim_jump_pay(sim, bp.obsidian_robot, time_limit), "obsidian")

GeodeSim_jump_build_geode_bot(sim, bp, time_limit) ==
    GeodeSim_add_bot(GeodeSim_jump_pay(sim, bp.geode_robot, time_limit), "geode")

\* a limit that counts the geode bots there are and no new ones
GeodeSim_silly_upper_geode_limit_no_new_bots(sim, time_limit) ==
    sim.geode + sim.geode_bots * (time_limit - sim.time_spend)

\* Simulation::silly_upper_geode_limit
GeodeSim_silly_upper_geode_limit(sim, time_limit) ==
    LET time_left == time_limit - sim.time_spend
    IN sim.geode + sim.geode_bots * time_left
         + (IF time_left > 1 THEN ((time_left - 1) * time_left) \div 2 ELSE 0)

\* max_sim.as_ref().map(|s| s.geode).unwrap_or(0)
GeodeSim_max_geode(max_sim) == IF max_sim = None THEN 0 ELSE max_sim[1].geode

\* the pushes of one iteration of the loop of get_max_geodes, as the sequence
\* of the states pushed
GeodeSim_pushes(sim, bp, time_allotted) ==
    GeodeSim_jump_build_geode_bot(sim, bp, time_allotted)
        \o GeodeSim_jump_build_obsidian_bot(sim, bp, time_allotted)
        \o GeodeSim_jump_build_clay_bot(sim, bp, time_allotted)
        \o GeodeSim_jump_build_ore_bot(sim, bp, time_allotted)
        \o <<GeodeSim_time_jump(sim, time_allotted - sim.time_spend)>>

\* BinaryHeap::push of every state of a sequence; the heap is kept as a bag
RECURSIVE BinaryHeap_push_all(_, _)
BinaryHeap_push_all(heap, sims) ==
    IF sims = <<>> THEN heap
    ELSE BinaryHeap_push_all(heap (+) SetToBag({Head(sims)}), Tail(sims))

\* the states BinaryHeap::pop may return: the ones no other state of the heap
\* is Greater than (which of several such states comes first is not specified)
BinaryHeap_pop_choices(heap) ==
    {s \in BagToSet(heap) : \A o \in BagToSet(heap) : GeodeSim_cmp(o, s) # "Greater"}

(***************************************************************************)
(* State                                                                   *)
(***************************************************************************)
VARIABLES
    grid,           \* a Grid<V> under a sequence of set calls
    nsets,          \* number of set calls made on grid
    ever,           \* history: the points passed to set so far
    last,           \* history: the value of the most recent set of each such point
    snap,           \* Option of the sequence returned by the last entries() call
    snapOf,         \* history: the cells of grid when that entries() call was made
    input23,        \* day 23: the puzzle text
    game,           \* day 23: Option of the Result of parsing it, later the game played
    rounds,         \* day 23: number of play_round calls made
    moves,          \* day 23: return value of the last play_round call
    input08,        \* day 8: the puzzle text
    forest,         \* day 8: Option of the Result of parse_input
    scores,         \* day 8: Option of the scenic score of every tree of the forest
    rocks,          \* day 14: the points of the rock lines of the puzzle text
    cave,           \* day 14: Option of the Cave made by create_cave
    flooring,       \* day 14: the flooring passed to drop_sand
    held,           \* day 14: number of drop_sand calls that returned true
    full,           \* day 14: a drop_sand call has returned false
    lastDrop,       \* day 14: Option of the return value of the last drop_sand call
    prev,           \* history: the cave before the last drop_sand call
    trail,          \* history: the points the unit of the last drop_sand call went through
    sim,            \* day 9: Option of the Simulation
    panicked,       \* day 9: apply_step has panicked
    moved,          \* day 9: number of rounds of the outer loop of apply_step so far
    units,          \* history: the knots before the last apply_step and after each of its rounds
    stacks,         \* day 5: the stacks of the Field
    before,         \* history: the stacks before the last move
    mov,            \* history: Option of the last Move and of the method that applied it
    stream,         \* day 6: the stream
    packet,         \* day 6: Option of the result of detect_start_of_packet
    message,        \* day 6: Option of the result of detect_start_of_message
    program,        \* day 10: the program, a sequence of operations
    ip,             \* day 10: index of the operation the loop of execute_program is at
    phase,          \* day 10: number of cycles of that operation already made
    cpu,            \* day 10: reg_x and cycle_count of execute_program
    calls,          \* day 10: the CpuStates passed to the cycle callback so far
    returned,       \* day 10: Option of the CpuState execute_program returned
    version,        \* day 11: the SimulationVersion
    monkeys,        \* day 11: the monkeys of the Simulation
    monkeysBefore,  \* history: the monkeys before the last inspect_and_yeet
    yeeter,         \* history: Option of the id passed to the last inspect_and_yeet
    input12,        \* day 12: the puzzle text
    heightMap,      \* day 12: Option of the Result of parsing it
    shortest,       \* day 12: Option of the return value of find_shortest_route
    scenic,         \* day 12: Option of the return value of find_scenic_route
    lhs,            \* day 13: the packet cmp is called on
    rhs,            \* day 13: the packet it is compared with
    ord,            \* day 13: Option of the Ordering cmp returned
    sensors,        \* day 15: the list of sensors
    line15,         \* day 15: the row asked for
    coverage,       \* day 15: Option of the return value of get_coverage_on_line
    tape,           \* day 17: the tape of movements
    tetris,         \* day 17: the Tetris that drop_block is called on one by one
    skipped,        \* day 17: Option of the return value of get_height_after(tetris.blocks, tape)
    build,          \* day 25: the build, with overflow checks ("debug") or without ("release")
    given,          \* day 25: what the round trip starts from, "number" or "text"
    number,         \* day 25: the isize given, as limbs
    text,           \* day 25: the SNAFU text given
    encoded,        \* day 25: Option of the outcome of encode_snafu_number
    decoded,        \* day 25: Option of the outcome of decode_snafu_number
    blueprint,      \* day 19: the blueprint get_max_geodes is called with
    time_allotted,  \* day 19: the minutes get_max_geodes is called with
    queue,          \* day 19: the BinaryHeap of get_max_geodes, as a bag of states
    max_sim,        \* day 19: Option of the best finished state
    pruned,         \* day 19: whether the upper limit has cut a state off
    geodes          \* day 19: Option of the return value of get_max_geodes

gridVars == <<grid, nsets, ever, last, snap, snapOf>>
day23Vars == <<input23, game, rounds, moves>>
day08Vars == <<input08, forest, scores>>
day14Vars == <<rocks, cave, flooring, held, full, lastDrop, prev, trail>>
day09Vars == <<sim, panicked, moved, units>>
day05Vars == <<stacks, before, mov>>
day06Vars == <<stream, packet, message>>
day10Vars == <<program, ip, phase, cpu, calls, returned>>
day11Vars == <<version, monkeys, monkeysBefore, yeeter>>
day12Vars == <<input12, heightMap, shortest, scenic>>
day13Vars == <<lhs, rhs, ord>>
day15Vars == <<sensors, line15, coverage>>
day17Vars == <<tape, tetris, skipped>>
day25Vars == <<build, given, number, text, encoded, decoded>>
day19Vars == <<blueprint, time_allotted, queue, max_sim, pruned, geodes>>
vars == <<grid, nsets, ever, last, snap, snapOf, input23, game, rounds, moves,
          input08, forest, scores, rocks, cave, flooring, held, full, lastDrop,
          prev, trail, sim, panicked, moved, units, stacks, before, mov,
          stream, packet, message, program, ip, phase, cpu, calls, returned,
          version, monkeys, monkeysBefore, yeeter, input12, heightMap,
          shortest, scenic, lhs, rhs, ord, sensors, line15, coverage, tape,
          tetris, skipped, build, given, number, text, encoded, decoded,
          blueprint, time_allotted, queue, max_sim, pruned, geodes>>

\* the variables outside one group
exceptGrid == <<day23Vars, day08Vars, day14Vars, day09Vars, day05Vars, day06Vars,
                day10Vars, day11Vars, day12Vars, day13Vars, day15Vars, day17Vars,
                day25Vars, day19Vars>>
except23 == <<gridVars, day08Vars, day14Vars, day09Vars, day05Vars, day06Vars,
              day10Vars, day11Vars, day12Vars, day13Vars, day15Vars, day17Vars,
              day25Vars, day19Vars>>
except08 == <<gridVars, day23Vars, day14Vars, day09Vars, day05Vars, day06Vars,
              day10Vars, day11Vars, day12Vars, day13Vars, day15Vars, day17Vars,
              day25Vars, day19Vars>>
except14 == <<gridVars, day23Vars, day08Vars, day09Vars, day05Vars, day06Vars,
              day10Vars, day11Vars, day12Vars, day13Vars, day15Vars, day17Vars,
              day25Vars, day19Vars>>
except09 == <<gridVars, day23Vars, day08Vars, day14Vars, day05Vars, day06Vars,
              day10Vars, day11Vars, day12Vars, day13Vars, day15Vars, day17Vars,
              day25Vars, day19Vars>>
except05 == <<gridVars, day23Vars, day08Vars, day14Vars, day09Vars, day06Vars,
              day10Vars, day11Vars, day12Vars, day13Vars, day15Vars, day17Vars,
              day25Vars, day19Vars>>
except06 == <<gridVars, day23Vars, day08Vars, day14Vars, day09Vars, day05Vars,
              day10Vars, day11Vars, day12Vars, day13Vars, day15Vars, day17Vars,
              day25Vars, day19Vars>>
except10 == <<gridVars, day23Vars, day08Vars, day14Vars, day09Vars, day05Vars,
              day06Vars, day11Vars, day12Vars, day13Vars, day15Vars, day17Vars,
              day25Vars, day19Vars>>
except11 == <<gridVars, day23Vars, day08Vars, day14Vars, day09Vars, day05Vars,
              day06Vars, day10Vars, day12Vars, day13Vars, day15Vars, day17Vars,
              day25Vars, day19Vars>>
except12 == <<gridVars, day23Vars, day08Vars, day14Vars, day09Vars, day05Vars,
              day06Vars, day10Vars, day11Vars, day13Vars, day15Vars, day17Vars,
              day25Vars, day19Vars>>
except13 == <<gridVars, day23Vars, day08Vars, day14Vars, day09Vars, day05Vars,
              day06Vars, day10Vars, day11Vars, day12Vars, day15Vars, day17Vars,
              day25Vars, day19Vars>>
except15 == <<gridVars, day23Vars, day08Vars, day14Vars, day09Vars, day05Vars,
              day06Vars, day10Vars, day11Vars, day12Vars, day13Vars, day17Vars,
              day25Vars, day19Vars>>
except17 == <<gridVars, day23Vars, day08Vars, day14Vars, day09Vars, day05Vars,
              day06Vars, day10Vars, day11Vars, day12Vars, day13Vars, day15Vars,
              day25Vars, day19Vars>>
except25 == <<gridVars, day23Vars, day08Vars, day14Vars, day09Vars, day05Vars,
              day06Vars, day10Vars, day11Vars, day12Vars, day13Vars, day15Vars,
              day17Vars, day19Vars>>
except19 == <<gridVars, day23Vars, day08Vars, day14Vars, day09Vars, day05Vars,
              day06Vars, day10Vars, day11Vars, day12Vars, day13Vars, day15Vars,
              day17Vars, day25Vars>>

GridInit ==
    /\ grid = Grid_default
    /\ nsets = 0
    /\ ever = {}
    /\ last = [q \in {} |-> 0]
    /\ snap = None
    /\ snapOf = [q \in {} |-> 0]

Day23Idle ==
    /\ input23 = <<>>
    /\ game = None
    /\ rounds = 0
    /\ moves = 0

Day08Idle ==
    /\ input08 = <<>>
    /\ forest = None
    /\ scores = None

Day14Idle ==
    /\ rocks = <<>>
    /\ cave = None
    /\ flooring = None
    /\ held = 0
    /\ full = FALSE
    /\ lastDrop = None
    /\ prev = None
    /\ trail = <<>>

Day09Idle ==
    /\ sim = None
    /\ panicked = FALSE
    /\ moved = 0
    /\ units = <<>>

Day05Idle ==
    /\ stacks = <<>>
    /\ before = <<>>
    /\ mov = None

Day06Idle ==
    /\ stream = <<>>
    /\ packet = None
    /\ message = None

Day10Idle ==
    /\ program = <<>>
    /\ ip = 1
    /\ phase = 0
    /\ cpu = CpuState(1, 0)
    /\ calls = <<>>
    /\ returned = None

Day11Idle ==
    /\ version = "Puzzle1"
    /\ monkeys = <<>>
    /\ monkeysBefore = <<>>
    /\ yeeter = None

Day12Idle ==
    /\ input12 = <<>>
    /\ heightMap = None
    /\ shortest = None
    /\ scenic = None

Day13Idle ==
    /\ lhs = Packet_Value(0)
    /\ rhs = Packet_Value(0)
    /\ ord = None

Day15Idle ==
    /\ sensors = <<>>
    /\ line15 = 0
    /\ coverage = None

Day17Idle ==
    /\ tape = <<>>
    /\ tetris = Tetris_create(<<>>)
    /\ skipped = None

Day25Idle ==
    /\ build = "debug"
    /\ given = "number"
    /\ number = <<0, 0, 0>>
    /\ text = <<>>
    /\ encoded = None
    /\ decoded = None

Day19Idle ==
    /\ blueprint = [id |-> 0]
    /\ time_allotted = 0
    /\ queue = EmptyBag
    /\ max_sim = None
    /\ pruned = FALSE
    /\ geodes = None

\* every group but one in its initial state
IdleExceptGrid ==
    /\ Day23Idle
    /\ Day08Idle
    /\ Day14Idle
    /\ Day09Idle
    /\ Day05Idle
    /\ Day06Idle
    /\ Day10Idle
    /\ Day11Idle
    /\ Day12Idle
    /\ Day13Idle
    /\ Day15Idle
    /\ Day17Idle
    /\ Day25Idle
    /\ Day19Idle

IdleExcept23 ==
    /\ GridInit
    /\ Day08Idle
    /\ Day14Idle
    /\ Day09Idle
    /\ Day05Idle
    /\ Day06Idle
    /\ Day10Idle
    /\ Day11Idle
    /\ Day12Idle
    /\ Day13Idle
    /\ Day15Idle
    /\ Day17Idle
    /\ Day25Idle
    /\ Day19Idle

IdleExcept08 ==
    /\ GridInit
    /\ Day23Idle
    /\ Day14Idle
    /\ Day09Idle
    /\ Day05Idle
    /\ Day06Idle
    /\ Day10Idle
    /\ Day11Idle
    /\ Day12Idle
    /\ Day13Idle
    /\ Day15Idle
    /\ Day17Idle
    /\ Day25Idle
    /\ Day19Idle

IdleExcept14 ==
    /\ GridInit
    /\ Day23Idle
    /\ Day08Idle
    /\ Day09Idle
    /\ Day05Idle
    /\ Day06Idle
    /\ Day10Idle
    /\ Day11Idle
    /\ Day12Idle
    /\ Day13Idle
    /\ Day15Idle
    /\ Day17Idle
    /\ Day25Idle
    /\ Day19Idle

IdleExcept09 ==
    /\ GridInit
    /\ Day23Idle
    /\ Day08Idle
    /\ Day14Idle
    /\ Day05Idle
    /\ Day06Idle
    /\ Day10Idle
    /\ Day11Idle
    /\ Day12Idle
    /\ Day13Idle
    /\ Day15Idle
    /\ Day17Idle
    /\ Day25Idle
    /\ Day19Idle

IdleExcept05 ==
    /\ GridInit
    /\ Day23Idle
    /\ Day08Idle
    /\ Day14Idle
    /\ Day09Idle
    /\ Day06Idle
    /\ Day10Idle
    /\ Day11Idle
    /\ Day12Idle
    /\ Day13Idle
    /\ Day15Idle
    /\ Day17Idle
    /\ Day25Idle
    /\ Day19Idle

IdleExcept06 ==
    /\ GridInit
    /\ Day23Idle
    /\ Day08Idle
    /\ Day14Idle
    /\ Day09Idle
    /\ Day05Idle
    /\ Day10Idle
    /\ Day11Idle
    /\ Day12Idle
    /\ Day13Idle
    /\ Day15Idle
    /\ Day17Idle
    /\ Day25Idle
    /\ Day19Idle

IdleExcept10 ==
    /\ GridInit
    /\ Day23Idle
    /\ Day08Idle
    /\ Day14Idle
    /\ Day09Idle
    /\ Day05Idle
    /\ Day06Idle
    /\ Day11Idle
    /\ Day12Idle
    /\ Day13Idle
    /\ Day15Idle
    /\ Day17Idle
    /\ Day25Idle
    /\ Day19Idle

IdleExcept11 ==
    /\ GridInit
    /\ Day23Idle
    /\ Day08Idle
    /\ Day14Idle
    /\ Day09Idle
    /\ Day05Idle
    /\ Day06Idle
    /\ Day10Idle
    /\ Day12Idle
    /\ Day13Idle
    /\ Day15Idle
    /\ Day17Idle
    /\ Day25Idle
    /\ Day19Idle

IdleExcept12 ==
    /\ GridInit
    /\ Day23Idle
    /\ Day08Idle
    /\ Day14Idle
    /\ Day09Idle
    /\ Day05Idle
    /\ Day06Idle
    /\ Day10Idle
    /\ Day11Idle
    /\ Day13Idle
    /\ Day15Idle
    /\ Day17Idle
    /\ Day25Idle
    /\ Day19Idle

IdleExcept13 ==
    /\ GridInit
    /\ Day23Idle
    /\ Day08Idle
    /\ Day14Idle
    /\ Day09Idle
    /\ Day05Idle
    /\ Day06Idle
    /\ Day10Idle
    /\ Day11Idle
    /\ Day12Idle
    /\ Day15Idle
    /\ Day17Idle
    /\ Day25Idle
    /\ Day19Idle

IdleExcept15 ==
    /\ GridInit
    /\ Day23Idle
    /\ Day08Idle
    /\ Day14Idle
    /\ Day09Idle
    /\ Day05Idle
    /\ Day06Idle
    /\ Day10Idle
    /\ Day11Idle
    /\ Day12Idle
    /\ Day13Idle
    /\ Day17Idle
    /\ Day25Idle
    /\ Day19Idle

IdleExcept17 ==
    /\ GridInit
    /\ Day23Idle
    /\ Day08Idle
    /\ Day14Idle
    /\ Day09Idle
    /\ Day05Idle
    /\ Day06Idle
    /\ Day10Idle
    /\ Day11Idle
    /\ Day12Idle
    /\ Day13Idle
    /\ Day15Idle
    /\ Day25Idle
    /\ Day19Idle

IdleExcept25 ==
    /\ GridInit
    /\ Day23Idle
    /\ Day08Idle
    /\ Day14Idle
    /\ Day09Idle
    /\ Day05Idle
    /\ Day06Idle
    /\ Day10Idle
    /\ Day11Idle
    /\ Day12Idle
    /\ Day13Idle
    /\ Day15Idle
    /\ Day17Idle
    /\ Day19Idle

IdleExcept19 ==
    /\ GridInit
    /\ Day23Idle
    /\ Day08Idle
    /\ Day14Idle
    /\ Day09Idle
    /\ Day05Idle
    /\ Day06Idle
    /\ Day10Idle
    /\ Day11Idle
    /\ Day12Idle
    /\ Day13Idle
    /\ Day15Idle
    /\ Day17Idle
    /\ Day25Idle

\* a sequence that is a live view of the grid
Entries_after_set_live(e, g) == CHOOSE x \in Grid_entries(g) : TRUE

\* an owned sequence returned by entries() is a copy: a later set on the
\* grid g leaves the sequence e as it was
Entries_after_set(e, g) == e

\* grid.set(p, v)
Set(p, v) ==
    /\ nsets < MaxSets
    /\ grid' = Grid_set(grid, p, v)
    /\ nsets' = nsets + 1
    /\ ever' = ever \cup {p}
    /\ last' = [q \in ever \cup {p} |-> IF q = p THEN v ELSE last[q]]
    /\ snap' = IF snap = None THEN None ELSE Some(Entries_after_set(snap[1], grid'))
    /\ UNCHANGED snapOf
    /\ UNCHANGED exceptGrid

\* let e = grid.entries()
Entries ==
    /\ \E e \in Grid_entries(grid) : snap' = Some(e)
    /\ snapOf' = grid.cells
    /\ UNCHANGED <<grid, nsets, ever, last>>
    /\ UNCHANGED exceptGrid

Init == GridInit /\ IdleExceptGrid

Next == \E p \in Points, v \in Values : Set(p, v)

Spec == Init /\ [][Next]_vars

\* the grid under set calls on the points of the row and the column through
\* the origin
RayPoints == {p \in Points : p.x = 0 \/ p.y = 0}

NextRay == \E p \in RayPoints, v \in Values : Set(p, v)

SpecRay == Init /\ [][NextRay]_vars

\* the grid under set and entries() calls, on the points of one row
SnapPoints == {Point(x, 0) : x \in Coords}

NextSnap ==
    \/ \E p \in SnapPoints, v \in Values : Set(p, v)
    \/ Entries

SpecSnap == Init /\ [][NextSnap]_vars

(***************************************************************************)
(* Day 23 driven from a puzzle text                                        *)
(***************************************************************************)
\* rectangular blocks over the accepted alphabet
Blocks ==
    UNION {{b \in [1..r -> [1..c -> {".", "#"}]] :
               Cardinality({ij \in (1..r) \X (1..c) : b[ij[1]][ij[2]] = "#"}) <= MaxElves}
           : r \in 1..MaxRows, c \in 1..MaxCols}

\* single rows that may hold a character outside the alphabet, given without
\* the final line feed
Rows23 == UNION {[1..1 -> [1..c -> {".", "#", "x"}]] : c \in 1..MaxCols}

InitElves ==
    /\ IdleExcept23
    /\ \/ \E b \in Blocks : input23 = JoinLines(b, TRUE)
       \/ \E b \in Rows23 : input23 = JoinLines(b, FALSE)
    /\ game = None
    /\ rounds = 0
    /\ moves = 0

\* let game: Result<GameOfElves, _> = input.parse()
Parse23 ==
    /\ game = None
    /\ game' = Some(GameOfElves_from_str(input23))
    /\ UNCHANGED <<input23, rounds, moves>>
    /\ UNCHANGED except23

\* game.play_round()
PlayRound ==
    /\ game # None
    /\ game[1].ok
    /\ rounds < MaxRounds
    /\ game' = Some([ok |-> TRUE, game |-> GameOfElves_play_round(game[1].game)])
    /\ moves' = GameOfElves_play_round_moves(game[1].game)
    /\ rounds' = rounds + 1
    /\ UNCHANGED input23
    /\ UNCHANGED except23

NextElves == Parse23 \/ PlayRound

SpecElves == InitElves /\ [][NextElves]_vars

(***************************************************************************)
(* Day 8 driven from a puzzle text                                         *)
(***************************************************************************)
Chars08 == {"0", "3", "7", "x", NL}

Texts08 == UNION {[1..n -> Chars08] : n \in 0..MaxInput}

InitForest ==
    /\ IdleExcept08
    /\ input08 \in Texts08
    /\ forest = None
    /\ scores = None

\* let forest = parse_input(input)
ParseInput ==
    /\ forest = None
    /\ forest' = Some(parse_input(input08))
    /\ UNCHANGED <<input08, scores>>
    /\ UNCHANGED except08

NextForest == ParseInput

SpecForest == InitForest /\ [][NextForest]_vars

(***************************************************************************)
(* Day 8: scenic scores of rectangular forests                             *)
(***************************************************************************)
TreeChars == {"3", "5"}

\* the example of the day-8 tests
Example08 ==
    JoinLines(<< <<"3", "0", "3", "7", "3">>,
                 <<"2", "5", "5", "1", "2">>,
                 <<"6", "5", "3", "3", "2">>,
                 <<"3", "3", "5", "4", "9">>,
                 <<"3", "5", "3", "9", "0">> >>, TRUE)

\* the rectangular forests of up to MaxTrees trees
ForestBlocks ==
    UNION {UNION {[1..r -> [1..c -> TreeChars]] :
                      c \in {k \in 1..MaxTrees : r * k <= MaxTrees}}
           : r \in 1..MaxTrees}

InitScenic ==
    /\ IdleExcept08
    /\ \/ input08 = Example08
       \/ \E b \in ForestBlocks : input08 = JoinLines(b, TRUE)
    /\ forest = None
    /\ scores = None

\* forest.get_best_scenic_score(): the score of every point of the forest
ScenicScores ==
    /\ forest # None
    /\ forest[1].ok
    /\ scores = None
    /\ scores' = Some(Forest_scenic_scores(forest[1].trees))
    /\ UNCHANGED <<input08, forest>>
    /\ UNCHANGED except08

NextScenic == ParseInput \/ ScenicScores

SpecScenic == InitScenic /\ [][NextScenic]_vars

(***************************************************************************)
(* Day 14 driven from the points of one rock line                          *)
(***************************************************************************)
RockPoints == {Point(x, y) : x \in 496..498, y \in 4..6}

\* paths whose consecutive points share x or y
RockPaths ==
    UNION {{path \in [1..n -> RockPoints] :
               \A i \in 1..(n - 1) :
                   path[i].x = path[i + 1].x \/ path[i].y = path[i + 1].y}
           : n \in 1..MaxPath}

\* no sand dropped yet
SandIdle ==
    /\ held = 0
    /\ full = FALSE
    /\ lastDrop = None
    /\ prev = None
    /\ trail = <<>>

InitCave ==
    /\ IdleExcept14
    /\ \E path \in RockPaths : rocks = <<path>>
    /\ cave = None
    /\ flooring = None
    /\ SandIdle

\* let cave = create_cave(input)
CreateCave ==
    /\ cave = None
    /\ cave' = Some(create_cave(rocks))
    /\ UNCHANGED <<rocks, flooring, held, full, lastDrop, prev, trail>>
    /\ UNCHANGED except14

NextCave == CreateCave

SpecCave == InitCave /\ [][NextCave]_vars

(***************************************************************************)
(* Day 14: sand dropped into the cave                                      *)
(***************************************************************************)
\* rock lines right below the source
SandPoints == {Point(x, y) : x \in 499..501, y \in 1..2}

SandPaths ==
    UNION {{path \in [1..n -> SandPoints] :
               \A i \in 1..(n - 1) :
                   path[i].x = path[i + 1].x \/ path[i].y = path[i + 1].y}
           : n \in 1..MaxPath}

\* the rock lines of the example of the day-14 tests
ExampleRocks ==
    << <<Point(498, 4), Point(498, 6), Point(496, 6)>>,
       <<Point(503, 4), Point(502, 4), Point(502, 9), Point(494, 9)>> >>

InitSand ==
    /\ IdleExcept14
    /\ \/ /\ \E path \in SandPaths : rocks = <<path>>
          /\ flooring \in {None} \cup {Some(f) : f \in 1..MaxFloor}
       \/ /\ rocks = ExampleRocks
          /\ flooring \in {None, Cave_determine_flooring(create_cave(ExampleRocks))}
    /\ cave = None
    /\ SandIdle

\* cave.drop_sand(flooring), as the loop of get_max_held_sand calls it
DropSand ==
    /\ cave # None
    /\ LET r == Cave_drop_sand(cave[1], flooring)
       IN /\ cave' = Some(r.cave)
          /\ held' = IF r.ok THEN held + 1 ELSE held
          /\ full' = (full \/ ~r.ok)
          /\ lastDrop' = Some(r.ok)
          /\ trail' = r.trail
    /\ prev' = cave
    /\ UNCHANGED <<rocks, flooring>>
    /\ UNCHANGED except14

NextSand == CreateCave \/ DropSand

SpecSand == InitSand /\ [][NextSand]_vars

(***************************************************************************)
(* Day 9: steps applied to a rope                                          *)
(***************************************************************************)
InitRope ==
    /\ IdleExcept09
    /\ \E knot_count \in 2..MaxKnots : sim = Some(Simulation_new(knot_count))
    /\ panicked = FALSE
    /\ moved = 0
    /\ units = <<>>

\* sim.apply_step(&Step { direction, amount })
ApplyStep(direction, amount) ==
    /\ ~panicked
    /\ moved + amount <= MaxMoves
    /\ LET r == Simulation_apply_step(sim[1], direction, amount, <<sim[1].knots>>)
       IN /\ sim' = Some(r.sim)
          /\ panicked' = r.panic
          /\ units' = r.units
    /\ moved' = moved + amount
    /\ UNCHANGED except09

NextRope == \E direction \in Directions09, amount \in 0..MaxMoves : ApplyStep(direction, amount)

SpecRope == InitRope /\ [][NextRope]_vars

(***************************************************************************)
(* Day 5: moves applied to a field                                         *)
(***************************************************************************)
Crates == {"A", "B"}

\* the stacks of at most n crates
StacksUpTo(n) == UNION {[1..h -> Crates] : h \in 0..n}

\* the fields of 1..MaxStacks stacks that hold at most MaxCrates crates
RECURSIVE FieldsOf(_, _)
FieldsOf(nstacks, ncrates) ==
    IF nstacks = 0 THEN {<<>>}
    ELSE UNION {{<<st>> \o f : f \in FieldsOf(nstacks - 1, ncrates - Len(st))}
                : st \in StacksUpTo(ncrates)}

InitCrates ==
    /\ IdleExcept05
    /\ \E n \in 1..MaxStacks : stacks \in FieldsOf(n, MaxCrates)
    /\ before = <<>>
    /\ mov = None

\* field.apply_move(&Move { count, from, to }); a move leads to a field that
\* is among those of InitCrates again, so each behaviour makes one move
ApplyMove(count, from, to) ==
    /\ mov = None
    /\ from \in 1..Len(stacks) /\ to \in 1..Len(stacks)
    /\ stacks' = Field_apply_move(stacks, count, from, to)
    /\ before' = stacks
    /\ mov' = Some([ordered |-> FALSE, count |-> count, from |-> from, to |-> to])
    /\ UNCHANGED except05

\* field.apply_move_with_order(&Move { count, from, to })
ApplyMoveWithOrder(count, from, to) ==
    /\ mov = None
    /\ from \in 1..Len(stacks) /\ to \in 1..Len(stacks)
    /\ stacks' = Field_apply_move_with_order(stacks, count, from, to)
    /\ before' = stacks
    /\ mov' = Some([ordered |-> TRUE, count |-> count, from |-> from, to |-> to])
    /\ UNCHANGED except05

NextCrates ==
    \E count \in 0..(MaxCrates + 1), from \in 1..MaxStacks, to \in 1..MaxStacks :
        \/ ApplyMove(count, from, to)
        \/ ApplyMoveWithOrder(count, from, to)

SpecCrates == InitCrates /\ [][NextCrates]_vars

(***************************************************************************)
(* Day 6 driven from a stream                                              *)
(***************************************************************************)
StreamChars == {"a", "b", "c", "d"}

\* fourteen different characters
Alphabet14 ==
    <<"a", "b", "c", "d", "e", "f", "g", "h", "i", "j", "k", "l", "m", "n">>

\* two streams of the day-6 tests
TestStream1 ==
    <<"m", "j", "q", "j", "p", "q", "m", "g", "b", "l", "j", "s", "p", "h",
      "d", "z", "t", "n", "v", "j", "f", "q", "w", "r", "c", "g", "s", "m",
      "l", "b">>

TestStream5 ==
    <<"z", "c", "f", "z", "f", "w", "z", "z", "q", "f", "r", "l", "j", "w",
      "z", "l", "r", "f", "n", "p", "q", "d", "b", "h", "t", "m", "s", "c",
      "g", "v", "j", "w">>

\* streams of up to MaxStream characters, streams that hold the fourteen
\* different characters between up to MaxStream - 3 repeated ones, and the
\* test streams
Streams ==
    UNION {[1..n -> StreamChars] : n \in 0..MaxStream}
        \cup {[i \in 1..j |-> "a"] \o Alphabet14 \o [i \in 1..k |-> "n"] :
                  j \in 0..(MaxStream - 3), k \in 0..(MaxStream - 3)}
        \cup {TestStream1, TestStream5}

InitStream ==
    /\ IdleExcept06
    /\ stream \in Streams
    /\ packet = None
    /\ message = None

\* let marker = detect_start_of_packet(input)
DetectPacket ==
    /\ packet = None
    /\ packet' = Some(detect_start_of_packet(stream))
    /\ UNCHANGED <<stream, message>>
    /\ UNCHANGED except06

\* let marker = detect_start_of_message(input)
DetectMessage ==
    /\ message = None
    /\ message' = Some(detect_start_of_message(stream))
    /\ UNCHANGED <<stream, packet>>
    /\ UNCHANGED except06

NextStream == DetectPacket \/ DetectMessage

SpecStream == InitStream /\ [][NextStream]_vars

(***************************************************************************)
(* Day 10: execute_program, one action per cycle                           *)
(***************************************************************************)
Operands == {-2, 3}

Operations == {Operation_Noop} \cup {Operation_Add(v) : v \in Operands}

InitCpu ==
    /\ IdleExcept10
    /\ program \in UNION {[1..n -> Operations] : n \in 0..MaxProgram}
    /\ ip = 1
    /\ phase = 0
    /\ cpu = CpuState(1, 0)
    /\ calls = <<>>
    /\ returned = None

\* Operation::Noop => one cycle
ExecNoop ==
    /\ ip <= Len(program) /\ program[ip].op = "Noop"
    /\ cpu' = Cpu_cycle(cpu).state
    /\ calls' = Append(calls, Cpu_cycle(cpu).call)
    /\ ip' = ip + 1
    /\ UNCHANGED <<program, phase, returned>>
    /\ UNCHANGED except10

\* Operation::Add(value) => the first cycle
ExecAddFirst ==
    /\ ip <= Len(program) /\ program[ip].op = "Add" /\ phase = 0
    /\ cpu' = Cpu_cycle(cpu).state
    /\ calls' = Append(calls, Cpu_cycle(cpu).call)
    /\ phase' = 1
    /\ UNCHANGED <<program, ip, returned>>
    /\ UNCHANGED except10

\* Operation::Add(value) => the second cycle, then reg_x += value
ExecAddSecond ==
    /\ ip <= Len(program) /\ program[ip].op = "Add" /\ phase = 1
    /\ cpu' = Cpu_add_second(cpu, program[ip].value).state
    /\ calls' = Append(calls, Cpu_add_second(cpu, program[ip].value).call)
    /\ phase' = 0
    /\ ip' = ip + 1
    /\ UNCHANGED <<program, returned>>
    /\ UNCHANGED except10

\* the end of the loop: CpuState { reg_x, cycle_count } is returned
ExecReturn ==
    /\ ip > Len(program)
    /\ returned = None
    /\ returned' = Some(cpu)
    /\ UNCHANGED <<program, ip, phase, cpu, calls>>
    /\ UNCHANGED except10

NextCpu == ExecNoop \/ ExecAddFirst \/ ExecAddSecond \/ ExecReturn

SpecCpu == InitCpu /\ [][NextCpu]_vars

(***************************************************************************)
(* Day 11: one turn of a monkey                                            *)
(***************************************************************************)
Worries == {2, 5}

\* the item lists of nmonkeys monkeys that hold at most nitems items
RECURSIVE ItemsOf(_, _)
ItemsOf(nmonkeys, nitems) ==
    IF nmonkeys = 0 THEN {<<>>}
    ELSE UNION {{<<its>> \o f : f \in ItemsOf(nmonkeys - 1, nitems - Len(its))}
                : its \in UNION {[1..h -> Worries] : h \in 0..nitems}}

\* monkey i - 1 of a troop: it squares when i is odd and adds one when i is
\* even, tests by i + 1 and throws to the ids true_to / false_to
Troop(items, true_to, false_to) ==
    [i \in 1..Len(items) |->
        [id |-> i - 1,
         items |-> items[i],
         operation |-> IF i % 2 = 1
                       THEN [kind |-> "Multiply", lhs |-> OperationValue_Input, rhs |-> OperationValue_Input]
                       ELSE [kind |-> "Add", lhs |-> OperationValue_Input, rhs |-> OperationValue_Value(1)],
         test |-> [div_by |-> i + 1, true_to |-> true_to, false_to |-> false_to],
         inspect_count |-> 0]]

\* the monkeys of the day-11 tests
Example11 ==
    << [id |-> 0, items |-> <<79, 98>>,
        operation |-> [kind |-> "Multiply", lhs |-> OperationValue_Input, rhs |-> OperationValue_Value(19)],
        test |-> [div_by |-> 23, true_to |-> 2, false_to |-> 3], inspect_count |-> 0],
       [id |-> 1, items |-> <<54, 65, 75, 74>>,
        operation |-> [kind |-> "Add", lhs |-> OperationValue_Input, rhs |-> OperationValue_Value(6)],
        test |-> [div_by |-> 19, true_to |-> 2, false_to |-> 0], inspect_count |-> 0],
       [id |-> 2, items |-> <<79, 60, 97>>,
        operation |-> [kind |-> "Multiply", lhs |-> OperationValue_Input, rhs |-> OperationValue_Input],
        test |-> [div_by |-> 13, true_to |-> 1, false_to |-> 3], inspect_count |-> 0],
       [id |-> 3, items |-> <<74>>,
        operation |-> [kind |-> "Add", lhs |-> OperationValue_Input, rhs |-> OperationValue_Value(3)],
        test |-> [div_by |-> 17, true_to |-> 0, false_to |-> 1], inspect_count |-> 0] >>

\* the target ids reach one past the last monkey: a monkey that is not there
InitMonkeys ==
    /\ IdleExcept11
    /\ version \in {"Puzzle1", "Puzzle2"}
    /\ \/ \E n \in 1..MaxMonkeys : \E items \in ItemsOf(n, MaxItems) :
              \E true_to \in 0..n, false_to \in 0..n :
                 monkeys = Troop(items, true_to, false_to)
       \/ monkeys = Example11
    /\ monkeysBefore = <<>>
    /\ yeeter = None

\* simulation.inspect_and_yeet(monkey_id), once per behaviour
InspectAndYeet(monkey_id) ==
    /\ yeeter = None
    /\ monkey_id <= Len(monkeys)
    /\ monkeys' = Simulation_inspect_and_yeet(monkeys, version, monkey_id)
    /\ monkeysBefore' = monkeys
    /\ yeeter' = Some(monkey_id)
    /\ UNCHANGED version
    /\ UNCHANGED except11

NextMonkeys == \E monkey_id \in 0..(MaxMonkeys + 1) : InspectAndYeet(monkey_id)

SpecMonkeys == InitMonkeys /\ [][NextMonkeys]_vars

\* Day 12: a height map is parsed and both routes are searched.  The texts
\* are the example of the tests with every choice of the original or the
\* alternative character at the first MaxGates gates, and every short
\* one-line text over a few characters.
Example12 ==
    << <<"S", "a", "b", "q", "p", "o", "n", "m">>,
       <<"a", "b", "c", "r", "y", "x", "x", "l">>,
       <<"a", "c", "c", "s", "z", "E", "x", "k">>,
       <<"a", "c", "c", "t", "u", "v", "w", "j">>,
       <<"a", "b", "d", "e", "f", "g", "h", "i">> >>

\* cells of the example (x, y counted from 0) and the character each may
\* take instead of its own
Gates ==
    << [x |-> 1, y |-> 4, c |-> "z"],
       [x |-> 5, y |-> 1, c |-> "y"],
       [x |-> 0, y |-> 1, c |-> "S"],
       [x |-> 4, y |-> 2, c |-> "a"],
       [x |-> 7, y |-> 2, c |-> "z"],
       [x |-> 7, y |-> 4, c |-> "E"],
       [x |-> 2, y |-> 3, c |-> "a"] >>

NumGates == IF MaxGates < Len(Gates) THEN MaxGates ELSE Len(Gates)

\* the example with the gates of `open` switched to their alternative
Gated(open) ==
    [r \in 1..Len(Example12) |->
        [k \in 1..Len(Example12[r]) |->
            IF \E i \in open : Gates[i].x = k - 1 /\ Gates[i].y = r - 1
            THEN Gates[CHOOSE i \in open : Gates[i].x = k - 1 /\ Gates[i].y = r - 1].c
            ELSE Example12[r][k]]]

TinyChars == {"S", "E", "a", "-"}

Texts12 ==
    {JoinLines(Gated(open), TRUE) : open \in SUBSET (1..NumGates)}
    \cup UNION {[1..n -> TinyChars] : n \in 1..MaxTiny}

InitRoute ==
    /\ input12 \in Texts12
    /\ heightMap = None
    /\ shortest = None
    /\ scenic = None
    /\ IdleExcept12

\* input.parse::<HeightMap>()
ParseMap ==
    /\ heightMap = None
    /\ heightMap' = Some(HeightMap_from_str(input12))
    /\ UNCHANGED <<input12, shortest, scenic>>
    /\ UNCHANGED except12

\* map.find_shortest_route() on a parsed map
FindShortestRoute ==
    /\ heightMap # None
    /\ heightMap[1].ok
    /\ shortest = None
    /\ shortest' = Some(HeightMap_find_shortest_route(heightMap[1]))
    /\ UNCHANGED <<input12, heightMap, scenic>>
    /\ UNCHANGED except12

\* map.find_scenic_route() on a parsed map
FindScenicRoute ==
    /\ heightMap # None
    /\ heightMap[1].ok
    /\ scenic = None
    /\ scenic' = Some(HeightMap_find_scenic_route(heightMap[1]))
    /\ UNCHANGED <<input12, heightMap, shortest>>
    /\ UNCHANGED except12

NextRoute == ParseMap \/ FindShortestRoute \/ FindScenicRoute

SpecRoute == InitRoute /\ [][NextRoute]_vars

\* Day 13: two packets are compared.  The packets are all those of up to
\* MaxSize nodes (lists and integers) over two integers.
PacketValues == {2, 6}

RECURSIVE PacketsOfSize(_)
RECURSIVE PacketSeqsOfSize(_)
\* the packets of exactly n nodes
PacketsOfSize(n) ==
    (IF n = 1 THEN {Packet_Value(v) : v \in PacketValues} ELSE {})
    \cup {Packet_List(s) : s \in PacketSeqsOfSize(n - 1)}

\* the sequences of packets of n nodes in total
PacketSeqsOfSize(n) ==
    IF n = 0 THEN {<<>>}
    ELSE UNION {{<<p>> \o s : p \in PacketsOfSize(k), s \in PacketSeqsOfSize(n - k)} :
                   k \in 1..n}

Packets == UNION {PacketsOfSize(n) : n \in 1..MaxSize}

InitPackets ==
    /\ lhs \in Packets
    /\ rhs \in Packets
    /\ ord = None
    /\ IdleExcept13

\* lhs.cmp(&rhs)
Compare ==
    /\ ord = None
    /\ ord' = Some(Packet_cmp(lhs, rhs))
    /\ UNCHANGED <<lhs, rhs>>
    /\ UNCHANGED except13

NextPackets == Compare

SpecPackets == InitPackets /\ [][NextPackets]_vars

\* Day 15: the coverage of a row is computed for a list of sensors.  The
\* sensors and their beacons lie on the points of a small square, and the
\* example of the tests is included.
SensorPoints == {Point(x, y) : x \in {0, 1}, y \in {0, 1}}

SensorLists ==
    UNION {[1..n -> {Sensor(l, b) : l \in SensorPoints, b \in SensorPoints}] :
               n \in 0..MaxSensors}

Example15 ==
    << Sensor(Point(2, 18), Point(-2, 15)), Sensor(Point(9, 16), Point(10, 16)),
       Sensor(Point(13, 2), Point(15, 3)), Sensor(Point(12, 14), Point(10, 16)),
       Sensor(Point(10, 20), Point(10, 16)), Sensor(Point(14, 17), Point(10, 16)),
       Sensor(Point(8, 7), Point(2, 10)), Sensor(Point(2, 0), Point(2, 10)),
       Sensor(Point(0, 11), Point(2, 10)), Sensor(Point(20, 14), Point(25, 17)),
       Sensor(Point(17, 20), Point(21, 22)), Sensor(Point(16, 7), Point(15, 3)),
       Sensor(Point(14, 3), Point(15, 3)), Sensor(Point(20, 1), Point(15, 3)) >>

InitSensors ==
    /\ \/ sensors \in SensorLists /\ line15 \in {0, 1}
       \/ sensors = Example15 /\ line15 = 10
    /\ coverage = None
    /\ IdleExcept15

\* get_coverage_on_line(&sensors, line)
GetCoverageOnLine ==
    /\ coverage = None
    /\ coverage' = Some(get_coverage_on_line(sensors, line15))
    /\ UNCHANGED <<sensors, line15>>
    /\ UNCHANGED except15

NextSensors == GetCoverageOnLine

SpecSensors == InitSensors /\ [][NextSensors]_vars

\* Day 17: blocks are dropped one by one on a Tetris created with a tape, and
\* get_height_after is asked for the number of blocks dropped so far.
Tapes == UNION {[1..n -> {"Left", "Right"}] : n \in 1..MaxTape}

InitTetris ==
    /\ tape \in Tapes
    /\ tetris = Tetris_create(tape)
    /\ skipped = None
    /\ IdleExcept17

\* tetris.drop_block()
DropBlock ==
    /\ tetris.blocks < MaxDrops
    /\ tetris' = Tetris_drop_block(tetris)
    /\ skipped' = None
    /\ UNCHANGED tape
    /\ UNCHANGED except17

\* Tetris::get_height_after(n, tape) for the n blocks dropped so far
GetHeightAfter ==
    /\ skipped = None
    /\ skipped' = Some(Tetris_get_height_after(tetris.blocks, tape))
    /\ UNCHANGED <<tape, tetris>>
    /\ UNCHANGED except17

NextTetris == DropBlock \/ GetHeightAfter

SpecTetris == InitTetris /\ [][NextTetris]_vars

\* Day 25: a number is encoded and the text decoded again, or a text is
\* decoded and the number encoded again, in a build with overflow checks
\* ("debug") or without them ("release").
Builds == {"debug", "release"}

\* 5^26, the least input for which 5^27 * 2 does not fit an isize
Snafu_wide == isize_pow5(26, "debug")

\* the numbers encoded: the small ones and the ones around 5^26
SnafuNumbers ==
    {Big(n) : n \in 1..MaxSnafu}
        \cup {Big_add(Snafu_wide, Big(k)) : k \in (0 - MaxWide)..MaxWide}

SnafuChars == {"=", "-", "0", "1", "2"}

\* the texts decoded: every text of up to MaxDigits characters, and the texts
\* of 27 characters 1 0 ... 0 d
SnafuTexts ==
    UNION {[1..n -> SnafuChars] : n \in 1..MaxDigits}
        \cup {[i \in 1..27 |-> IF i = 1 THEN "1" ELSE IF i = 27 THEN d ELSE "0"] : d \in SnafuChars}

InitSnafu ==
    /\ build \in Builds
    /\ \/ given = "number" /\ number \in SnafuNumbers /\ text = <<>>
       \/ given = "text" /\ text \in SnafuTexts /\ number = Big(0)
    /\ encoded = None
    /\ decoded = None
    /\ IdleExcept25

\* encode_snafu_number(number), or encode_snafu_number of the number decoded
EncodeSnafu ==
    /\ encoded = None
    /\ \/ given = "number" /\ encoded' = Some(encode_snafu_number(number, build))
       \/ /\ given = "text" /\ decoded # None /\ decoded[1].ok /\ decoded[1].value # Overflow
          /\ encoded' = Some(encode_snafu_number(decoded[1].value, build))
    /\ UNCHANGED <<build, given, number, text, decoded>>
    /\ UNCHANGED except25

\* decode_snafu_number(text), or decode_snafu_number of the text encoded
DecodeSnafu ==
    /\ decoded = None
    /\ \/ given = "text" /\ decoded' = Some(decode_snafu_number(text, build))
       \/ /\ given = "number" /\ encoded # None /\ encoded[1].panic = ""
          /\ decoded' = Some(decode_snafu_number(encoded[1].text, build))
    /\ UNCHANGED <<build, given, number, text, encoded>>
    /\ UNCHANGED except25

NextSnafu == EncodeSnafu \/ DecodeSnafu

SpecSnafu == InitSnafu /\ [][NextSnafu]_vars

\* Day 19: Simulation::get_max_geodes(blueprint, time_allotted), one action
\* per iteration of its loop and one for its return.
Costs == 1..MaxCost

\* blueprints of the shape of the puzzle: ore for the ore and the clay robot,
\* ore and clay for the obsidian robot, ore and obsidian for the geode robot
Blueprints ==
    {[id |-> 1, ore_robot |-> BOM(a, 0, 0), clay_robot |-> BOM(b, 0, 0),
      obsidian_robot |-> BOM(1, d, 0), geode_robot |-> BOM(1, 0, f)] :
        a \in Costs, b \in {1, 2}, d \in Costs, f \in Costs}

InitGeodes ==
    /\ blueprint \in Blueprints
    /\ time_allotted \in 0..MaxTime
    /\ queue = SetToBag({GeodeSim_new})
    /\ max_sim = None
    /\ pruned = FALSE
    /\ geodes = None
    /\ IdleExcept19

\* one iteration of `while let Some(sim) = queue.pop()` that ends at a continue
GeodesSkip ==
    /\ geodes = None
    /\ \E popped \in BinaryHeap_pop_choices(queue) :
          /\ queue' = queue (-) SetToBag({popped})
          /\ \/ /\ GeodeSim_silly_upper_geode_limit(popped, time_allotted) < GeodeSim_max_geode(max_sim)
                /\ pruned' = TRUE
                /\ UNCHANGED max_sim
             \/ /\ GeodeSim_silly_upper_geode_limit(popped, time_allotted) >= GeodeSim_max_geode(max_sim)
                /\ popped.time_spend = time_allotted
                /\ max_sim' = IF popped.geode >= GeodeSim_max_geode(max_sim) THEN Some(popped) ELSE max_sim
                /\ UNCHANGED pruned
    /\ UNCHANGED <<blueprint, time_allotted, geodes>>
    /\ UNCHANGED except19

\* one iteration that pushes the jumps of the state popped
GeodesExpand ==
    /\ geodes = None
    /\ \E popped \in BinaryHeap_pop_choices(queue) :
          /\ GeodeSim_silly_upper_geode_limit(popped, time_allotted) >= GeodeSim_max_geode(max_sim)
          /\ popped.time_spend # time_allotted
          /\ queue' = BinaryHeap_push_all(queue (-) SetToBag({popped}),
                                          GeodeSim_pushes(popped, blueprint, time_allotted))
    /\ UNCHANGED <<blueprint, time_allotted, max_sim, pruned, geodes>>
    /\ UNCHANGED except19

\* the loop ends: max_sim.map(|s| s.geode)
GeodesReturn ==
    /\ geodes = None
    /\ queue = EmptyBag
    /\ geodes' = Some(IF max_sim = None THEN None ELSE Some(max_sim[1].geode))
    /\ UNCHANGED <<blueprint, time_allotted, queue, max_sim, pruned>>
    /\ UNCHANGED except19

NextGeodes == GeodesSkip \/ GeodesExpand \/ GeodesReturn

SpecGeodes == InitGeodes /\ [][NextGeodes]_vars

\* points probed by the claims: the set window and a margin around it
Probe == {Point(x, y) : x \in (-2)..(MaxCoord + 1), y \in (-2)..(MaxCoord + 1)}

\* C1: get(p) is Some of the value of the most recent set(p, _) and None
\* for every point never passed to set
C1_ReadYourWrites ==
    \A p \in Probe :
        Grid_get(grid, p) = IF p \in ever THEN Some(last[p]) ELSE None

\* a point was set twice, a second point once; both read back, the rest is None
C1_Witness ==
    /\ nsets = 3
    /\ Cardinality(ever) = 2
    /\ \A p \in ever : Grid_get(grid, p) = Some(last[p])
    /\ \E p, q \in ever : last[p] # last[q]
    /\ \E q \in Probe : q \notin ever /\ Grid_get(grid, q) = None

\* C2: the Bounds contains every point ever passed to set, overwritten or not
C2_BoundsContainsEverSet ==
    \A p \in ever : Bounds_contains(grid.bounds, p)

\* three calls, one of them an overwrite, on two points that differ in x and y
C2_Witness ==
    /\ nsets = 3
    /\ \E p, q \in ever : p.x < q.x /\ p.y > q.y /\ ever = {p, q}
    /\ \A p \in ever : Bounds_contains(grid.bounds, p)

SetMin(S) == CHOOSE m \in S : \A n \in S : m <= n
SetMax(S) == CHOOSE m \in S : \A n \in S : m >= n
EverX == {p.x : p \in ever}
EverY == {p.y : p \in ever}

\* C3: after a non-empty sequence of set calls on an empty Grid the Bounds
\* is exactly the min / max x and y over the points ever set
C3_BoundsTight ==
    nsets > 0 =>
        /\ grid.bounds.left = SetMin(EverX)
        /\ Bounds_right(grid.bounds) = SetMax(EverX)
        /\ grid.bounds.top = SetMin(EverY)
        /\ Bounds_bottom(grid.bounds) = SetMax(EverY)
        /\ grid.bounds.width = SetMax(EverX) - SetMin(EverX) + 1
        /\ grid.bounds.height = SetMax(EverY) - SetMin(EverY) + 1

\* a grid whose points all have x = 1 does not reach the origin, also when
\* its rows do span y = 0
C3_Witness ==
    /\ nsets >= 2
    /\ ever = {Point(1, -1), Point(1, 1)}
    /\ grid.bounds = Bounds_from_tlbr(-1, 1, 1, 1)
    /\ grid.bounds.width = 1 /\ grid.bounds.height = 3
    /\ ~Bounds_contains(grid.bounds, Point(0, 0))

\* C4: entries() and values() have one element per distinct point ever
\* passed to set
C4_EntriesCount ==
    /\ \A e \in Grid_entries(grid) : Len(e) = Cardinality(ever)
    /\ \A e \in Grid_values(grid) : Len(e) = Cardinality(ever)

\* an overwrite happened: fewer entries than calls, and the later value stored
C4_Witness ==
    /\ nsets = 3
    /\ Cardinality(ever) = 2
    /\ \A e \in Grid_entries(grid) :
          /\ Len(e) = 2
          /\ \A i \in 1..2 : e[i][2] = last[e[i][1]]

\* the points of the Bounds of the grid and of one cell around it
ProbeBounds ==
    {Point(x, y) : x \in (grid.bounds.left - 1)..(Bounds_right(grid.bounds) + 1),
                   y \in (grid.bounds.top - 1)..(Bounds_bottom(grid.bounds) + 1)}

\* keys of the grid that lie on the ray from p by offset o, strictly beyond p
\* and inside the current Bounds
RayKeys(p, o) ==
    {q \in DOMAIN grid.cells :
        /\ Bounds_contains(grid.bounds, q)
        /\ IF o[1] # 0
           THEN q.y = p.y /\ (q.x - p.x) * o[1] >= 1
           ELSE q.x = p.x /\ (q.y - p.y) * o[2] >= 1}

Dist(p, q) == (IF p.x >= q.x THEN p.x - q.x ELSE q.x - p.x)
              + (IF p.y >= q.y THEN p.y - q.y ELSE q.y - p.y)

\* p lies on the edge of the Bounds that direction d points out of
OnOutwardEdge(p, d) ==
    /\ Bounds_contains(grid.bounds, p)
    /\ CASE d = "Top" -> p.y = grid.bounds.top
         [] d = "Bottom" -> p.y = Bounds_bottom(grid.bounds)
         [] d = "Left" -> p.x = grid.bounds.left
         [] d = "Right" -> p.x = Bounds_right(grid.bounds)

\* C6: get_in_direction(p, d) holds the stored values of the cells strictly
\* beyond p along d, nearest first, up to the edge of the Bounds (p inside the
\* Bounds); it never visits p itself nor a cell outside the Bounds, and is
\* empty when p is on the edge d points out of
C6_InDirection ==
    \A p \in ProbeBounds, d \in Orthogonal :
        LET o == Directions_offsets(d)[1]
            ps == Grid_get_in_direction_points(grid, p, d)
            vs == Grid_get_in_direction(grid, p, d)
            r == RayKeys(p, o)
        IN /\ \A i \in 1..Len(ps) : ps[i] # p /\ Bounds_contains(grid.bounds, ps[i])
           /\ Len(vs) <= Cardinality(r)
           /\ Bounds_contains(grid.bounds, p) =>
                 /\ Len(vs) = Cardinality(r)
                 /\ \A q \in r :
                       vs[1 + Cardinality({n \in r : Dist(p, n) < Dist(p, q)})]
                          = grid.cells[q]
           /\ OnOutwardEdge(p, d) => vs = <<>>

\* a row of three stored cells with different values at its ends: from the
\* left end looking Right the two others are seen nearest first, and from the
\* right end looking Right nothing is seen
C6_Witness ==
    \E y \in {0} :
        /\ DOMAIN grid.cells = {Point(-1, y), Point(0, y), Point(1, y)}
        /\ grid.cells[Point(0, y)] # grid.cells[Point(1, y)]
        /\ Grid_get_in_direction(grid, Point(-1, y), "Right")
              = <<grid.cells[Point(0, y)], grid.cells[Point(1, y)]>>
        /\ Grid_get_in_direction(grid, Point(1, y), "Left")
              = <<grid.cells[Point(0, y)], grid.cells[Point(-1, y)]>>
        /\ Grid_get_in_direction(grid, Point(1, y), "Right") = <<>>

OffsetSet(d) ==
    LET ring == {o \in {-1, 0, 1} \X {-1, 0, 1} : o # <<0, 0>>}
    IN CASE d = "Top" -> {<<0, -1>>}
         [] d = "Right" -> {<<1, 0>>}
         [] d = "Bottom" -> {<<0, 1>>}
         [] d = "Left" -> {<<-1, 0>>}
         [] d = "TopAll" -> {o \in ring : o[2] = -1}
         [] d = "RightAll" -> {o \in ring : o[1] = 1}
         [] d = "BottomAll" -> {o \in ring : o[2] = 1}
         [] d = "LeftAll" -> {o \in ring : o[1] = -1}
         [] d = "Diagonal" -> {o \in ring : o[1] # 0 /\ o[2] # 0}
         [] d = "NonDiagonal" -> {o \in ring : o[1] = 0 \/ o[2] = 0}
         [] d = "All" -> ring

Neighbours(p, d) == {Point(p.x + o[1], p.y + o[2]) : o \in OffsetSet(d)}

\* the tiles of the parsed game
Tiles == game[1].game.tiles

\* the points of the Bounds of the tiles
Probe23 ==
    {Point(x, y) : x \in Tiles.bounds.left..Bounds_right(Tiles.bounds),
                   y \in Tiles.bounds.top..Bounds_bottom(Tiles.bounds)}

SideOf(d) ==
    CASE d = "North" -> "TopAll" [] d = "East" -> "RightAll"
      [] d = "South" -> "BottomAll" [] d = "West" -> "LeftAll"

\* C5: get_adjacent(p, directions) holds exactly the values stored at the
\* neighbours of p named by `directions` that are keys, never the value of p
\* itself: as many values as present neighbours, each value as often as it is
\* stored among them; eight values on a full 3x3 block; and can_move, built
\* on it, holds exactly when no Elf is stored on that side of p
C5_Adjacent ==
    (game # None /\ game[1].ok) =>
        \A p \in Probe23 :
            /\ \A d \in Directions :
                  LET adj == Grid_get_adjacent(Tiles, p, d)
                      present == Neighbours(p, d) \cap DOMAIN Tiles.cells
                  IN /\ Len(adj) = Cardinality(present)
                     /\ \A t \in {"Elf", "Nothing"} :
                           Cardinality({i \in 1..Len(adj) : adj[i] = t})
                              = Cardinality({q \in present : Tiles.cells[q] = t})
            /\ (\A q \in Neighbours(p, "All") \cup {p} : Grid_has(Tiles, q))
                  => Len(Grid_get_adjacent(Tiles, p, "All")) = 8
            /\ \A d \in {"North", "East", "South", "West"} :
                  Direction_can_move(d, p, Tiles)
                     <=> \A q \in Neighbours(p, SideOf(d)) : Grid_get(Tiles, q) # Some("Elf")

\* a parsed 3x3 block with an Elf in the middle and Nothing around it, but
\* for one Elf: the middle has 8 neighbours, one of them an Elf, a corner 3
C5_Witness ==
    /\ game # None /\ game[1].ok /\ rounds = 0
    /\ Tiles.bounds = Bounds_from_size(3, 3)
    /\ Tiles.cells[Point(1, 1)] = "Elf"
    /\ Len(Grid_get_adjacent(Tiles, Point(1, 1), "All")) = 8
    /\ Cardinality({i \in 1..8 : Grid_get_adjacent(Tiles, Point(1, 1), "All")[i] = "Elf"}) = 1
    /\ Len(Grid_get_adjacent(Tiles, Point(0, 0), "All")) = 3
    /\ ~Direction_can_move("North", Point(1, 1), Tiles)
    /\ Direction_can_move("South", Point(1, 1), Tiles)

\* number of rows and of characters of the lines of a text
IsRectangular(s) ==
    /\ str_lines(s) # <<>>
    /\ \A i \in 1..Len(str_lines(s)) :
          Len(str_lines(s)[i]) = Len(str_lines(s)[1]) /\ Len(str_lines(s)[i]) > 0

\* C7: a rectangular block over the alphabet, parsed into the tiles and
\* written back row-major over Bounds.points() through the Display of the
\* values, gives the block again; the grid holds one entry per character,
\* at x = column, y = row
C7_RoundTrip ==
    (game # None /\ rounds = 0 /\ IsRectangular(input23)
        /\ \A i \in 1..Len(input23) : input23[i] \in {".", "#", NL}) =>
        /\ game[1].ok
        /\ str_lines(Grid_fmt(Tiles, Tile23_fmt, "Nothing")) = str_lines(input23)
        /\ Grid_fmt(Tiles, Tile23_fmt, "Nothing") \o <<NL>> = JoinLines(str_lines(input23), TRUE)
        /\ Cardinality(DOMAIN Tiles.cells) = Len(str_lines(input23)) * Len(str_lines(input23)[1])
        /\ \A y \in 1..Len(str_lines(input23)) : \A x \in 1..Len(str_lines(input23)[y]) :
              Grid_get(Tiles, Point(x - 1, y - 1))
                 = Some(IF str_lines(input23)[y][x] = "#" THEN "Elf" ELSE "Nothing")

\* a parsed block of 2 rows and 3 columns that is not symmetric
C7_Witness ==
    /\ game # None /\ game[1].ok /\ rounds = 0
    /\ str_lines(input23) = << <<"#", ".", ".">>, <<".", ".", "#">> >>
    /\ str_lines(Grid_fmt(Tiles, Tile23_fmt, "Nothing")) = str_lines(input23)
    /\ Tiles.bounds = Bounds_from_size(3, 2)

\* the integer points of the segment between a and b
Segment(a, b) ==
    {Point(x, y) : x \in Min(a.x, b.x)..Max(a.x, b.x), y \in Min(a.y, b.y)..Max(a.y, b.y)}

\* C8: for a Line whose ends share x or y, get_points has exactly the integer
\* points of the segment, both ends included, |delta| + 1 of them and none
\* twice, in either direction; the Line (498,4)->(498,6) gives (498,4),
\* (498,5), (498,6); and the cave made from the rock line has Rock on exactly
\* the points of its segments
C8_LinePoints ==
    /\ \A a, b \in RockPoints : (a.x = b.x \/ a.y = b.y) =>
          LET pts == Line_get_points(a, b)
          IN /\ Len(pts) = Abs(b.x - a.x) + Abs(b.y - a.y) + 1
             /\ {pts[i] : i \in 1..Len(pts)} = Segment(a, b)
             /\ \A i, j \in 1..Len(pts) : i # j => pts[i] # pts[j]
             /\ pts[1] = a /\ pts[Len(pts)] = b
    /\ Line_get_points(Point(498, 4), Point(498, 6))
          = <<Point(498, 4), Point(498, 5), Point(498, 6)>>
    /\ cave # None =>
          {p \in DOMAIN cave[1].cells : cave[1].cells[p] = "Rock"}
             = UNION {Segment(rocks[1][i], rocks[1][i + 1]) : i \in 1..(Len(rocks[1]) - 1)}

\* the cave of the rock line 498,4 -> 498,6 -> 496,6: five rocks, the second
\* segment drawn from its right end to its left end
C8_Witness ==
    /\ cave # None
    /\ rocks = << <<Point(498, 4), Point(498, 6), Point(496, 6)>> >>
    /\ {p \in DOMAIN cave[1].cells : cave[1].cells[p] = "Rock"}
          = {Point(498, 4), Point(498, 5), Point(498, 6), Point(497, 6), Point(496, 6)}
    /\ {Line_get_points(Point(498, 6), Point(496, 6))[i] : i \in 1..3}
          = {Point(496, 6), Point(497, 6), Point(498, 6)}

\* the lines of the day-8 text
Lines08 == str_lines(input08)

\* C9: parse_input gives Err for every text whose lines differ in length; an
\* Ok forest holds exactly one tree per character of the text, at x = column
\* and y = row, nothing cut off and nothing added; a text whose lines all have
\* the same non-zero length and hold digits only gives Ok
C9_ParseInput ==
    forest # None =>
        /\ (\E i, j \in 1..Len(Lines08) : Len(Lines08[i]) # Len(Lines08[j]))
              => ~forest[1].ok
        /\ (forest[1].ok /\ Lines08 # <<>>) =>
              /\ DOMAIN forest[1].trees.cells
                    = {Point(x - 1, y - 1) : x \in 1..Len(Lines08[1]), y \in 1..Len(Lines08)}
              /\ \A y \in 1..Len(Lines08) : \A x \in 1..Len(Lines08[y]) :
                    Grid_get(forest[1].trees, Point(x - 1, y - 1))
                       = Some(DigitValue(Lines08[y][x]))
        /\ (/\ Lines08 # <<>>
            /\ \A i \in 1..Len(Lines08) :
                  /\ Len(Lines08[i]) = Len(Lines08[1]) /\ Len(Lines08[i]) > 0
                  /\ \A k \in 1..Len(Lines08[i]) : IsDigit(Lines08[i][k]))
              => forest[1].ok

\* a text of two lines of digits, the second shorter than the first, is refused
C9_Witness ==
    /\ forest # None
    /\ Lines08 = << <<"3", "0">>, <<"7">> >>
    /\ ~forest[1].ok

\* the forest whose scores were taken
Trees == forest[1].trees

\* the point k steps from t in direction d
Step(t, d, k) ==
    Point(t.x + k * Directions_offsets(d)[1][1], t.y + k * Directions_offsets(d)[1][2])

\* number of trees from t outward to the edge of the Bounds
EdgeDist(t, d) ==
    Cardinality({k \in 1..(Trees.bounds.width + Trees.bounds.height) :
                    Step(t, d, k) \in DOMAIN Trees.cells})

\* number of trees from t outward up to and including the first one that is
\* at least as high as t, or up to the edge
ViewDist(t, d) ==
    LET stops == {k \in 1..EdgeDist(t, d) : Trees.cells[Step(t, d, k)] >= Trees.cells[t]}
    IN IF stops = {} THEN EdgeDist(t, d) ELSE SetMin(stops)

OnEdge(t) ==
    \/ t.x = Trees.bounds.left \/ t.x = Bounds_right(Trees.bounds)
    \/ t.y = Trees.bounds.top \/ t.y = Bounds_bottom(Trees.bounds)

\* C11: get_scenic_score(t) is the product over Top, Right, Bottom and Left
\* of the viewing distance in that direction; a tree on an edge scores 0; in
\* the day-8 example (2,1) scores 4 and (2,3) scores 8
C11_ScenicScore ==
    scores # None =>
        /\ DOMAIN scores[1] = DOMAIN Trees.cells
        /\ \A t \in DOMAIN scores[1] :
              /\ scores[1][t] = ViewDist(t, "Top") * ViewDist(t, "Right")
                                  * ViewDist(t, "Bottom") * ViewDist(t, "Left")
              /\ OnEdge(t) => scores[1][t] = 0
        /\ input08 = Example08 =>
              /\ scores[1][Point(2, 1)] = 4
              /\ scores[1][Point(2, 3)] = 8

\* the scores of the example forest were taken: an inner tree that sees past
\* lower trees and stops at one of its own height
C11_Witness ==
    /\ scores # None
    /\ input08 = Example08
    /\ scores[1][Point(2, 3)] = 8
    /\ Trees.cells[Point(2, 3)] = 5
    /\ Trees.cells[Point(2, 1)] = 5
    /\ ViewDist(Point(2, 3), "Top") = 2
    /\ scores[1][Point(0, 0)] = 0

\* the source of the sand and the cell below a point
Source == Point(500, 0)
Below(p) == Point(p.x, p.y + 1)
SandOf(c) == {q \in DOMAIN c.cells : c.cells[q] = "Sand"}

\* C12: without a floor, a unit that reaches a position whose cell directly
\* below is outside the current Bounds makes drop_sand return false with the
\* entries and the Bounds of the cave as before the call; after a false every
\* later drop_sand(None) is false, and get_max_held_sand(None) is the number
\* of drops that returned true, 24 in the example
C12_Abyss ==
    (flooring = None /\ lastDrop # None) =>
        /\ \A i \in 1..Len(trail) :
              ~Bounds_contains(prev[1].bounds, Below(trail[i])) =>
                  (i = Len(trail) /\ lastDrop = Some(FALSE))
        /\ lastDrop = Some(FALSE) => cave = prev
        /\ full => lastDrop = Some(FALSE)
        /\ full => held = Cave_get_max_held_sand(create_cave(rocks), None)
        /\ (full /\ rocks = ExampleRocks) => held = 24

\* the example cave without a floor after 24 units came to rest: the next one
\* reached a position above the outside of the Bounds and the cave is as before
C12_Witness ==
    /\ flooring = None
    /\ rocks = ExampleRocks
    /\ lastDrop = Some(FALSE)
    /\ held = 24
    /\ Len(trail) > 1
    /\ ~Bounds_contains(prev[1].bounds, Below(trail[Len(trail)]))
    /\ cave = prev
    /\ Cardinality(SandOf(cave[1])) = 24

\* the cells sand from the source can come to rest in above a floor at row f
Triangle(f) ==
    {Point(x, y) : x \in (Source.x - f)..(Source.x + f), y \in 0..(f - 1)}
        \ {q \in {Point(x, y) : x \in (Source.x - f)..(Source.x + f), y \in 0..(f - 1)} :
               Abs(q.x - Source.x) > q.y}

Cheb(a, b) == Max(Abs(a.x - b.x), Abs(a.y - b.y))

\* C14: from Simulation::new(k), k >= 2, after every unit move of every
\* apply_step each knot is on or next to its predecessor (Chebyshev distance
\* at most 1), a knot still touching its predecessor has not moved, and the
\* 'No overlap to move' panic is never reached
C14_Rope ==
    /\ ~panicked
    /\ \A j \in 1..Len(units) : \A i \in 2..Len(units[j]) :
          Cheb(units[j][i], units[j][i - 1]) <= 1
    /\ \A j \in 2..Len(units) : \A i \in 2..Len(units[j]) :
          Cheb(units[j - 1][i], units[j][i - 1]) <= 1 => units[j][i] = units[j - 1][i]
    /\ units # <<>> => units[Len(units)] = sim[1].knots

\* a step of two rounds on a rope of three knots in which the last knot
\* followed its predecessor diagonally, off the two axes through both
C14_Witness ==
    /\ Len(units) = 3
    /\ Len(sim[1].knots) = 3
    /\ \E j \in 2..3 :
          /\ Abs(units[j][3].x - units[j - 1][3].x) = 1
          /\ Abs(units[j][3].y - units[j - 1][3].y) = 1
          /\ Abs(units[j][2].x - units[j - 1][3].x) = 2
          /\ Abs(units[j][2].y - units[j - 1][3].y) = 2

\* the field of the day-5 tests
Example05 == << <<"Z", "N">>, <<"M", "C", "D">>, <<"P">> >>

Reverse(s) == [i \in 1..Len(s) |-> s[Len(s) + 1 - i]]

\* number of crates c on the field f
CountOf(f, c) == Cardinality({ij \in (1..Len(f)) \X (1..(MaxCrates + 1)) :
                                 ij[2] <= Len(f[ij[1]]) /\ f[ij[1]][ij[2]] = c})

\* the crates the last move took: the top min(count, height) of stack from
Taken ==
    LET h == Len(before[mov[1].from])
    IN SubSeq(before[mov[1].from], h - Min(mov[1].count, h) + 1, h)

\* C15: for from # to, apply_move transfers the top min(count, height(from))
\* crates of `from` so that they arrive on `to` in reversed order and
\* apply_move_with_order transfers the same crates in their bottom-to-top
\* order; both leave every other stack as it was and conserve the multiset of
\* the crates
C15_Crates ==
    /\ (mov # None /\ mov[1].from # mov[1].to) =>
          /\ Len(stacks) = Len(before)
          /\ stacks[mov[1].from]
                = SubSeq(before[mov[1].from], 1, Len(before[mov[1].from]) - Len(Taken))
          /\ stacks[mov[1].to]
                = before[mov[1].to] \o (IF mov[1].ordered THEN Taken ELSE Reverse(Taken))
          /\ \A n \in 1..Len(stacks) :
                n \notin {mov[1].from, mov[1].to} => stacks[n] = before[n]
          /\ \A c \in Crates : CountOf(stacks, c) = CountOf(before, c)
    /\ Field_apply_move(Field_apply_move(Example05, 1, 2, 1), 3, 1, 3)
          = << <<>>, <<"M", "C">>, <<"P", "D", "N", "Z">> >>
    /\ Field_apply_move_with_order(Field_apply_move_with_order(Example05, 1, 2, 1), 3, 1, 3)
          = << <<>>, <<"M", "C">>, <<"P", "Z", "N", "D">> >>

\* a move with order of more crates than the stack holds: both crates of
\* stack 1 went on top of stack 3 in their order, stack 2 was left alone
C15_Witness ==
    /\ mov = Some([ordered |-> TRUE, count |-> 3, from |-> 1, to |-> 3])
    /\ before = << <<"A", "B">>, <<"A">>, <<>> >>
    /\ stacks = << <<>>, <<"A">>, <<"A", "B">> >>

\* the n characters before index i of the stream are pairwise different
AllDifferent(s, n, i) ==
    \A a, b \in (i - n + 1)..i : a # b => s[a] # s[b]

\* Some of the smallest i with n pairwise different characters before it
FirstMarker(s, n) ==
    LET ends == {i \in n..Len(s) : AllDifferent(s, n, i)}
    IN IF ends = {} THEN None ELSE Some(SetMin(ends))

\* C16: detect_start_of_packet(stream) is Some(i) for the smallest i such
\* that the four characters stream[i-4..i] are pairwise different and None
\* only if the stream has no four consecutive pairwise different characters;
\* detect_start_of_message does the same with 14 characters
C16_Detect ==
    /\ packet # None => packet[1] = FirstMarker(stream, PacketMarker)
    /\ message # None => message[1] = FirstMarker(stream, MessageMarker)

\* cycles of an operation, and the cycle in which operation k completes
Cost(o) == IF o.op = "Noop" THEN 1 ELSE 2

RECURSIVE EndCycle(_)
EndCycle(k) == IF k = 0 THEN 0 ELSE EndCycle(k - 1) + Cost(program[k])

\* sum of the operands of the operations with index in K
RECURSIVE OperandSum(_)
OperandSum(K) ==
    IF K = {} THEN 0
    ELSE LET k == CHOOSE n \in K : TRUE IN program[k].value + OperandSum(K \ {k})

\* C17: the callback is called once per cycle with cycle_count 1, 2, 3, ...
\* in order, a noop taking one cycle and an addx two; the reg_x of a cycle is
\* 1 plus the operands of the addx that completed in earlier cycles, so an
\* operand shows in neither of its own two cycles; the returned state has
\* cycle_count = #noop + 2 * #addx and reg_x = 1 + the sum of all operands
C17_CpuTiming ==
    /\ Len(calls) = cpu.cycle_count
    /\ \A j \in 1..Len(calls) :
          /\ calls[j].cycle_count = j
          /\ calls[j].reg_x
                = 1 + OperandSum({k \in 1..Len(program) :
                                     program[k].op = "Add" /\ EndCycle(k) < j})
    /\ returned # None =>
          /\ returned[1].cycle_count
                = Cardinality({k \in 1..Len(program) : program[k].op = "Noop"})
                  + 2 * Cardinality({k \in 1..Len(program) : program[k].op = "Add"})
          /\ returned[1].reg_x = 1 + OperandSum(1..Len(program))
          /\ Len(calls) = returned[1].cycle_count

\* the program noop, addx 3, addx -2 has run: five cycles, the 3 first shows
\* in cycle 4 and the -2 only in the returned state
C17_Witness ==
    /\ program = <<Operation_Noop, Operation_Add(3), Operation_Add(-2)>>
    /\ returned = Some(CpuState(2, 5))
    /\ [j \in 1..5 |-> calls[j].reg_x] = <<1, 1, 1, 4, 4>>

\* the index of the monkey whose turn it was, its items before the turn, and
\* the worry value of its k-th item after the operation and the relief
ActorIdx == CHOOSE i \in 1..Len(monkeysBefore) : monkeysBefore[i].id = yeeter[1]
Actor == monkeysBefore[ActorIdx]
Inspected(k) ==
    IF version = "Puzzle1"
    THEN Operation_apply(Actor.operation, Actor.items[k]) \div 3
    ELSE Operation_apply(Actor.operation, Actor.items[k])

\* the id the k-th item goes to, and the items that went to the id t, in the
\* order the actor held them, as they are kept: reduced modulo the least
\* common multiple of the divisors of all monkeys
TargetOf(k) ==
    IF Inspected(k) % Actor.test.div_by = 0 THEN Actor.test.true_to ELSE Actor.test.false_to

ThrownTo(t) ==
    LET ks == SelectSeq([k \in 1..Len(Actor.items) |-> k], LAMBDA k : TargetOf(k) = t)
        l == Vec_lcm([i \in 1..Len(monkeysBefore) |-> monkeysBefore[i].test.div_by])
    IN [n \in 1..Len(ks) |-> Inspected(ks[n]) % l]

RECURSIVE TotalItems(_)
TotalItems(ms) == IF ms = <<>> THEN 0 ELSE Len(Head(ms).items) + TotalItems(Tail(ms))

\* C18: inspect_and_yeet(m) leaves m without items unless it throws to
\* itself, raises m's inspect_count by the number of items it held, and
\* appends each inspected item, in the order held, to exactly one monkey:
\* true_to if the new worry value is divisible by m's div_by, else false_to;
\* the items the monkeys already had keep their order, and when every target
\* id exists the total number of items is unchanged
C18_MonkeyTurn ==
    (yeeter # None /\ \E i \in 1..Len(monkeysBefore) : monkeysBefore[i].id = yeeter[1]) =>
        /\ Len(monkeys) = Len(monkeysBefore)
        /\ \A j \in 1..Len(monkeys) :
              /\ monkeys[j].items
                    = (IF j = ActorIdx THEN <<>> ELSE monkeysBefore[j].items)
                          \o ThrownTo(monkeys[j].id)
              /\ monkeys[j].inspect_count
                    = monkeysBefore[j].inspect_count
                          + (IF j = ActorIdx THEN Len(Actor.items) ELSE 0)
              /\ monkeys[j].id = monkeysBefore[j].id
              /\ monkeys[j].operation = monkeysBefore[j].operation
              /\ monkeys[j].test = monkeysBefore[j].test
        /\ (\A k \in 1..Len(Actor.items) : TargetOf(k) # Actor.id) =>
              monkeys[ActorIdx].items = <<>>
        /\ (\A k \in 1..Len(Actor.items) :
               \E j \in 1..Len(monkeys) : monkeys[j].id = TargetOf(k)) =>
              TotalItems(monkeys) = TotalItems(monkeysBefore)

\* the turn of monkey 0 of the tests: its two items went to monkey 3, behind
\* the item that monkey had, in the order monkey 0 held them
C18_Witness ==
    /\ monkeysBefore = Example11
    /\ version = "Puzzle1"
    /\ yeeter = Some(0)
    /\ monkeys[1].items = <<>>
    /\ monkeys[1].inspect_count = 2
    /\ monkeys[4].items = <<74, 500, 620>>
    /\ monkeys[2].items = <<54, 65, 75, 74>>

\* ---------------------------------------------------------------------------
\* C19
\* ---------------------------------------------------------------------------
\* a step from p to q of the height map: orthogonal neighbours, both cells of
\* the area, q at most one higher than p
CanStep(area, p, q) ==
    /\ p \in DOMAIN area.cells /\ q \in DOMAIN area.cells
    /\ \/ (p.x = q.x /\ (p.y - q.y = 1 \/ q.y - p.y = 1))
       \/ (p.y = q.y /\ (p.x - q.x = 1 \/ q.x - p.x = 1))
    /\ area.cells[q] <= area.cells[p] + 1

\* `within` holds the cells some path of at most k steps leads to; the least
\* k at which the target is among them, None when the set stops growing first
RECURSIVE MinStepsFrom(_, _, _, _)
MinStepsFrom(area, within, target, k) ==
    IF target \in within THEN Some(k)
    ELSE LET more == within \cup {q \in DOMAIN area.cells :
                                     \E p \in within : CanStep(area, p, q)}
         IN IF more = within THEN None
            ELSE MinStepsFrom(area, more, target, k + 1)

MinSteps(area, from, target) ==
    IF from \in DOMAIN area.cells THEN MinStepsFrom(area, {from}, target, 0) ELSE None

\* the least of a set of Options of numbers, None counting as no number
MinOption(S) ==
    IF S \subseteq {None} THEN None
    ELSE CHOOSE m \in S \ {None} : \A o \in S \ {None} : m[1] <= o[1]

\* C19: find_shortest_route returns Some(n) with n the least number of steps
\* of a path from start to end whose every step enters a cell at most one
\* higher than the cell it leaves, and None exactly when there is no such
\* path; find_scenic_route returns the least of these numbers over the
\* starting cells of height 0.
C19_Routes ==
    /\ shortest # None =>
           shortest[1] = MinSteps(heightMap[1].area, heightMap[1].start, heightMap[1].end)
    /\ scenic # None =>
           scenic[1] = MinOption({MinSteps(heightMap[1].area, s, heightMap[1].end) :
                                      s \in {p \in DOMAIN heightMap[1].area.cells :
                                                heightMap[1].area.cells[p] = 0}})

\* both routes exist and the scenic one is shorter than the one from start
C19_Witness ==
    /\ shortest # None /\ scenic # None
    /\ shortest[1] # None /\ scenic[1] # None
    /\ scenic[1][1] < shortest[1][1]

\* ---------------------------------------------------------------------------
\* C20
\* ---------------------------------------------------------------------------
ReverseOrdering(o) ==
    IF o = "Less" THEN "Greater" ELSE IF o = "Greater" THEN "Less" ELSE o

\* two lists element by element from the left: the first pair of elements
\* that does not compare Equal decides, and when there is none within the
\* shorter list, the list that runs out first is Less
ListOrder(l, r) ==
    LET n == Min(Len(l), Len(r))
        D == {i \in 1..n : Packet_cmp(l[i], r[i]) # "Equal"}
    IN IF D # {} THEN Packet_cmp(l[SetMinIdx(D)], r[SetMinIdx(D)])
       ELSE usize_cmp(Len(l), Len(r))

\* the items of a packet taken as a list: an integer is the one-element list
\* holding it
AsList(p) == IF p.kind = "List" THEN p.items ELSE <<p>>

AtMost(o) == o \in {"Less", "Equal"}

\* C20: Packet::cmp orders two integers numerically, two lists element by
\* element from the left with the list that runs out first being Less, and
\* an integer against a list as the one-element list holding it; cmp(b, a)
\* is the reverse of cmp(a, b), cmp is transitive, and it never panics.
C20_PacketOrder ==
    ord # None =>
        /\ ord[1] \in {"Less", "Equal", "Greater"}
        /\ (lhs.kind = "Value" /\ rhs.kind = "Value") =>
               ord[1] = (IF lhs.val < rhs.val THEN "Less"
                         ELSE IF lhs.val > rhs.val THEN "Greater" ELSE "Equal")
        /\ (lhs.kind = "List" \/ rhs.kind = "List") =>
               ord[1] = ListOrder(AsList(lhs), AsList(rhs))
        /\ Packet_cmp(rhs, lhs) = ReverseOrdering(ord[1])
        /\ \A c \in Packets :
               /\ (AtMost(ord[1]) /\ AtMost(Packet_cmp(rhs, c))) => AtMost(Packet_cmp(lhs, c))
               /\ (ord[1] = "Less" /\ AtMost(Packet_cmp(rhs, c))) => Packet_cmp(lhs, c) = "Less"
               /\ (ord[1] = "Equal" /\ Packet_cmp(rhs, c) = "Equal") =>
                      Packet_cmp(lhs, c) = "Equal"

\* an integer was compared with a longer list that starts with it, and a
\* third packet lies above both
C20_Witness ==
    /\ ord = Some("Less")
    /\ lhs.kind = "Value" /\ rhs.kind = "List" /\ Len(rhs.items) > 1
    /\ Packet_cmp(lhs, rhs.items[1]) = "Equal"
    /\ \E c \in Packets : Packet_cmp(rhs, c) = "Less"

\* ---------------------------------------------------------------------------
\* C21
\* ---------------------------------------------------------------------------
\* the x positions of the row that lie within the Manhattan radius of a sensor
CoveredXs(ss, y) ==
    UNION {{x \in (ss[i].location.x - ss[i].area.length)..(ss[i].location.x + ss[i].area.length) :
               Point_manhattan_distance(ss[i].location, Point(x, y)) <= ss[i].area.length} :
           i \in 1..Len(ss)}

BeaconsOn(ss, y) == {ss[i].beacon : i \in {j \in 1..Len(ss) : ss[j].beacon.y = y}}

\* C21: get_coverage_on_line returns the number of x positions of the row
\* within the radius of at least one sensor minus the number of distinct
\* beacons on the row, without an underflow, for every list of sensors in any
\* order.
C21_Coverage ==
    coverage # None =>
        /\ ~coverage[1].underflow
        /\ coverage[1].result =
               Cardinality(CoveredXs(sensors, line15)) - Cardinality(BeaconsOn(sensors, line15))

\* ---------------------------------------------------------------------------
\* C22
\* ---------------------------------------------------------------------------
\* C22: get_height_after(n, tape) returns the height of the tower of a Tetris
\* created with the tape after n calls of drop_block.
C22_HeightAfter ==
    skipped # None => skipped[1] = tetris.formation.bounds.height

\* get_height_after met a key again and skipped at least two repetitions
C22_Witness ==
    /\ skipped # None
    /\ LET r == Tetris_find_repetition(Tetris_create(tape), tetris.blocks, {})
       IN /\ ~r.done
          /\ r.repetition_height > 0
          /\ (tetris.blocks - r.repetition_start) \div r.repetition_amount >= 2

\* ---------------------------------------------------------------------------
\* C23
\* ---------------------------------------------------------------------------
\* the text denotes a positive number and has no leading 0
SnafuCanonical(s) ==
    /\ s # <<>>
    /\ s[1] # "0"
    /\ decode_snafu_number(s, "release").value[3] >= 0
    /\ decode_snafu_number(s, "release").value # Big(0)

\* C23: encode_snafu_number(n) for n >= 1 does not panic, consists of SNAFU
\* digits without a leading 0 and decodes to n; a SNAFU text without a
\* leading 0 that denotes a positive number is what its number encodes to.
C23_RoundTrip ==
    /\ (given = "number" /\ encoded # None) =>
          /\ encoded[1].panic = ""
          /\ \A i \in 1..Len(encoded[1].text) : encoded[1].text[i] \in SnafuChars
          /\ encoded[1].text # <<>>
          /\ encoded[1].text[1] # "0"
          /\ decoded # None => decoded[1].ok /\ decoded[1].value = number
    /\ (given = "text" /\ SnafuCanonical(text) /\ encoded # None) =>
          /\ encoded[1].panic = ""
          /\ encoded[1].text = text

\* ---------------------------------------------------------------------------
\* C24
\* ---------------------------------------------------------------------------
\* the robots a factory holding the resources of s can start to build
Affordable(s, bp) ==
    {k \in {"ore", "clay", "obsidian", "geode"} :
        LET bom == CASE k = "ore" -> bp.ore_robot [] k = "clay" -> bp.clay_robot
                     [] k = "obsidian" -> bp.obsidian_robot [] k = "geode" -> bp.geode_robot
        IN s.ore >= bom.ore /\ s.clay >= bom.clay /\ s.obsidian >= bom.obsidian}

\* one minute: no robot or one affordable robot is started and paid, every
\* robot there is collects one unit, and the robot started is ready
Minute(s, bp) ==
    LET collected(t) == [t EXCEPT !.time_spend = @ + 1,
                                  !.ore = @ + s.ore_bots,
                                  !.clay = @ + s.clay_bots,
                                  !.obsidian = @ + s.obsidian_bots,
                                  !.geode = @ + s.geode_bots]
        built(k) ==
            LET bom == CASE k = "ore" -> bp.ore_robot [] k = "clay" -> bp.clay_robot
                         [] k = "obsidian" -> bp.obsidian_robot [] k = "geode" -> bp.geode_robot
                c == collected([s EXCEPT !.ore = @ - bom.ore, !.clay = @ - bom.clay,
                                         !.obsidian = @ - bom.obsidian])
            IN CASE k = "ore" -> [c EXCEPT !.ore_bots = @ + 1]
                 [] k = "clay" -> [c EXCEPT !.clay_bots = @ + 1]
                 [] k = "obsidian" -> [c EXCEPT !.obsidian_bots = @ + 1]
                 [] k = "geode" -> [c EXCEPT !.geode_bots = @ + 1]
    IN {collected(s)} \cup {built(k) : k \in Affordable(s, bp)}

\* the states a factory can be in after t minutes
RECURSIVE AfterMinutes(_, _)
AfterMinutes(t, bp) ==
    IF t = 0 THEN {GeodeSim_new}
    ELSE UNION {Minute(s, bp) : s \in AfterMinutes(t - 1, bp)}

\* the most geodes that can have been collected after t minutes
MaxGeodes(t, bp) == SetMax({s.geode : s \in AfterMinutes(t, bp)})

\* C24: get_max_geodes returns Some(g) with g the most geodes any schedule
\* of robot builds collects in time_allotted minutes, and no state of the
\* queue has a negative resource count.
C24_MaxGeodes ==
    /\ \A s \in BagToSet(queue) : s.ore >= 0 /\ s.clay >= 0 /\ s.obsidian >= 0 /\ s.geode >= 0
    /\ geodes # None =>
          /\ geodes[1] # None
          /\ geodes[1][1] = MaxGeodes(time_allotted, blueprint)

\* get_max_geodes returned two geodes or more after the limit cut states off
C24_Witness ==
    /\ geodes # None
    /\ geodes[1] # None
    /\ geodes[1][1] >= 2
    /\ pruned

=============================================================================
